---- MODULE Spec2Model ----
(***************************************************************************)
(* rvprog (tiny_lander/tools/rvprog.py): the debug-module memory access    *)
(* layer, its access sequence cache, the flash controller and the main     *)
(* control flow, together with a model of the debug module they drive.     *)
(*                                                                         *)
(* A 32-bit quantity is a pair <<hi, lo>> of 16-bit halves (hi * 65536 +   *)
(* lo).  Device registers wrap modulo 2^32; Python integers of the tool    *)
(* (stateval) do not wrap: their hi half is unbounded and -1 is <<-1,      *)
(* 65535>>.                                                                *)
(***************************************************************************)
EXTENDS Integers, Sequences, FiniteSets, TLC

VARIABLES isp, dev, stk, ret, cur, last, prev, nops, out, cfg

vars == <<isp, dev, stk, ret, cur, last, prev, nops, out, cfg>>

\* ------------------------------------------------------------------------
\* Words
\* ------------------------------------------------------------------------
W(h, l) == <<h, l>>

RECURSIVE And16(_, _)
And16(a, b) ==
    IF a = 0 \/ b = 0 THEN 0
    ELSE (a % 2) * (b % 2) + 2 * And16(a \div 2, b \div 2)

RECURSIVE Or16(_, _)
Or16(a, b) ==
    IF a = 0 THEN b
    ELSE IF b = 0 THEN a
    ELSE (IF (a % 2) + (b % 2) > 0 THEN 1 ELSE 0) + 2 * Or16(a \div 2, b \div 2)

AndW(x, m) == <<And16(x[1], m[1]), And16(x[2], m[2])>>
OrW(x, m)  == <<Or16(x[1], m[1]), Or16(x[2], m[2])>>

\* bit k (0..31) of a word
Bit(x, k) == IF k < 16 THEN (x[2] \div (2 ^ k)) % 2 ELSE (x[1] \div (2 ^ (k - 16))) % 2

\* Python integer addition of a small non-negative n (no wrap)
PyAdd(x, n) == <<x[1] + ((x[2] + n) \div 65536), (x[2] + n) % 65536>>

\* 32-bit register addition (wraps)
Add32(x, n) == <<(x[1] + ((x[2] + n) \div 65536)) % 65536, (x[2] + n) % 65536>>

\* a small natural number as a word
Nat2W(n) == <<n \div 65536, n % 65536>>

ZERO == W(0, 0)
ONES == W(65535, 65535)
MINUS1 == W(-1, 65535)

\* ------------------------------------------------------------------------
\* Debug protocol constants
\* ------------------------------------------------------------------------
DMDATA0        == 4
DMDATA1        == 5
DMCONTROL      == 16
DMSTATUS       == 17
DMHARTINFO     == 18
DMABSTRACTCS   == 22
DMCOMMAND      == 23
DMABSTRACTAUTO == 24
DMPROGBUF0     == 32
DMPROGBUF1     == 33
DMPROGBUF2     == 34
DMCPBR         == 124
DMCFGR         == 125
DMSHDWCFGR     == 126

CH_RAM_BASE  == W(8192, 0)
CH_RAM_SIZE  == 2048
CH_CODE_BASE == W(2048, 0)
CH_CODE_SIZE == 16384

\* flash controller registers used by the tool
FLASH_KEYR     == W(\h4002, \h2004)
FLASH_OBKEYR   == W(\h4002, \h2008)
FLASH_STATR    == W(\h4002, \h200C)
FLASH_CTLR     == W(\h4002, \h2010)
FLASH_ADDR     == W(\h4002, \h2014)
FLASH_MODEKEYR == W(\h4002, \h2024)
FLASH_BOOTKEYR == W(\h4002, \h2028)
KEY1 == W(\h4567, \h0123)
KEY2 == W(\hCDEF, \h89AB)

\* ------------------------------------------------------------------------
\* The debug module and the core behind it.  The tool only sees it through
\* register reads and writes; what a program-buffer snippet does is what
\* its RISC-V instructions do to the data registers and the memory.
\* ------------------------------------------------------------------------

\* hartinfo of the core: the data registers are mapped at 0xe00000f4
DevHartInfo == W(\h0021, \h20F4)
DATA0ADDR == W(\hE000, \h00F4)
DATA1ADDR == W(\hE000, \h00F8)

\* content of a memory word never written: erased flash reads all ones
DefaultWord(a) == IF a[1] \div 256 = 8 THEN ONES ELSE ZERO

Reg(d, r) == IF r = 0 THEN ZERO ELSE d.x[r]
SetReg(d, r, v) == IF r = 0 THEN d ELSE [d EXCEPT !.x[r] = v]

\* value of the flash status register: BSY (bit 0), WRPRTERR (bit 4)
StatrValue(d) ==
    LET busy == d.fbusy # 0
        prot == d.scn.prot = 1 \/ (d.scn.prot = 2 /\ busy)
    IN  W(0, (IF busy THEN 1 ELSE 0) + (IF prot THEN 16 ELSE 0))

\* value of the flash control register: LOCK (bit 7), FLOCK (bit 15)
CtlrValue(d) ==
    W(d.ctlr[1], (d.ctlr[2] % 128) + (IF d.lock THEN 128 ELSE 0)
                 + 256 * ((d.ctlr[2] \div 256) % 128)
                 + (IF d.flock THEN 32768 ELSE 0))

\* a key register receives a value: KEY1 then KEY2 opens the lock
KeyStore(d, k, v) ==
    LET opens == d.key[k] = 1 /\ v = KEY2 /\ d.scn.unlockable
        d1 == [d EXCEPT !.key[k] = IF v = KEY1 THEN 1 ELSE 0,
                        !.ev = Append(@, <<"key", k, v>>)]
    IN  IF ~opens THEN d1
        ELSE IF k = "KEYR" THEN [d1 EXCEPT !.lock = FALSE]
        ELSE IF k = "MODEKEYR" THEN [d1 EXCEPT !.flock = FALSE]
        ELSE d1

\* the core loads a word
DevLoad(d, a) ==
    CASE a = DATA0ADDR   -> [d |-> d, v |-> d.data0]
      [] a = DATA1ADDR   -> [d |-> d, v |-> d.data1]
      [] a = FLASH_STATR -> [d |-> [d EXCEPT !.fbusy = IF @ > 0 THEN @ - 1 ELSE @,
                                             !.nstatr = @ + 1],
                             v |-> StatrValue(d)]
      [] a = FLASH_CTLR  -> [d |-> d, v |-> CtlrValue(d)]
      [] OTHER           -> [d |-> d,
                             v |-> IF a \in DOMAIN d.mem THEN d.mem[a] ELSE DefaultWord(a)]

\* what a started erase wipes: the 64-byte page at the flash address
\* register (PER), or the whole code flash (MER)
Erased(d, v, c) ==
    /\ c[1] \div 256 = 8
    /\ \/ Bit(v, 2) = 1
       \/ Bit(v, 17) = 1 /\ c[1] = d.faddr[1] /\ c[2] \div 64 = d.faddr[2] \div 64

\* the core stores a word
DevStore(d, a, v) ==
    CASE a = DATA0ADDR      -> [d EXCEPT !.data0 = v]
      [] a = DATA1ADDR      -> [d EXCEPT !.data1 = v]
      [] a = FLASH_KEYR     -> KeyStore(d, "KEYR", v)
      [] a = FLASH_OBKEYR   -> KeyStore(d, "OBKEYR", v)
      [] a = FLASH_MODEKEYR -> KeyStore(d, "MODEKEYR", v)
      [] a = FLASH_BOOTKEYR -> KeyStore(d, "BOOTKEYR", v)
      [] a = FLASH_STATR    -> d
      [] a = FLASH_ADDR     -> [d EXCEPT !.faddr = v, !.ev = Append(@, <<"addr", v>>)]
      [] a = FLASH_CTLR     ->
            [d EXCEPT !.ctlr = v,
                      !.ev = Append(@, <<"ctlr", v>>),
                      !.fbusy = IF d.scn.busy = -1 THEN -1
                                ELSE IF Bit(v, 6) = 1 \/ Bit(v, 18) = 1 \/ Bit(v, 19) = 1
                                     THEN d.scn.busy ELSE @,
                      !.mem = IF Bit(v, 6) = 1 /\ (Bit(v, 17) = 1 \/ Bit(v, 2) = 1)
                              THEN [b \in {c \in DOMAIN d.mem : ~Erased(d, v, c)} |-> d.mem[b]]
                              ELSE @]
      [] OTHER              ->
            [d EXCEPT !.mem = [b \in DOMAIN d.mem \cup {a} |-> IF b = a THEN v ELSE d.mem[b]],
                      !.ev = Append(@, <<"word", a, v>>)]

\* sub-word views of the memory, as the load/store instructions see them
AlignW(a) == W(a[1], a[2] - (a[2] % 4))
ByteOf(v, k) ==
    CASE k = 0 -> v[2] % 256
      [] k = 1 -> v[2] \div 256
      [] k = 2 -> v[1] % 256
      [] OTHER -> v[1] \div 256
HalfOf(v, k) == IF k < 2 THEN v[2] ELSE v[1]
SetByte(v, k, b) ==
    CASE k = 0 -> W(v[1], (v[2] \div 256) * 256 + b)
      [] k = 1 -> W(v[1], (v[2] % 256) + 256 * b)
      [] k = 2 -> W((v[1] \div 256) * 256 + b, v[2])
      [] OTHER -> W((v[1] % 256) + 256 * b, v[2])
SetHalf(v, k, h) == IF k < 2 THEN W(v[1], h) ELSE W(h, v[2])
SignExt8(b)  == IF b >= 128 THEN W(65535, 65280 + b) ELSE W(0, b)
SignExt16(h) == IF h >= 32768 THEN W(65535, h) ELSE W(0, h)

\* one 16-bit (compressed) instruction: c.lw, c.sw, c.addi / c.nop
CStep(d, h) ==
    LET op   == h % 4
        f3   == h \div 8192
        rp   == 8 + ((h \div 4) % 8)
        rs1p == 8 + ((h \div 128) % 8)
        off  == 4 * ((h \div 64) % 2) + 8 * ((h \div 1024) % 8) + 64 * ((h \div 32) % 2)
        rd   == (h \div 128) % 32
        imm  == ((h \div 4) % 32) - 32 * ((h \div 4096) % 2)
    IN  CASE op = 0 /\ f3 = 2 ->
               LET r == DevLoad(d, Add32(Reg(d, rs1p), off)) IN SetReg(r.d, rp, r.v)
          [] op = 0 /\ f3 = 6 ->
               DevStore(d, Add32(Reg(d, rs1p), off), Reg(d, rp))
          [] op = 1 /\ f3 = 0 /\ rd < 16 /\ imm >= 0 ->
               SetReg(d, rd, Add32(Reg(d, rd), imm))
          [] OTHER -> [d EXCEPT !.cmderr = 3]

\* one 32-bit instruction: lb, lh, lw, lbu, lhu, sb, sh, sw (offset 0..2047)
Step32(d, wd) ==
    LET opc  == wd[2] % 128
        rd   == (wd[2] \div 128) % 32
        f3   == (wd[2] \div 4096) % 8
        rs1  == (wd[2] \div 32768) + 2 * (wd[1] % 16)
        rs2  == (wd[1] \div 16) % 32
        immL == wd[1] \div 16
        immS == rd + 32 * (wd[1] \div 512)
        aL   == Add32(Reg(d, rs1), immL)
        aS   == Add32(Reg(d, rs1), immS)
    IN  IF rd > 15 \/ rs1 > 15 \/ wd[1] >= 32768 THEN [d EXCEPT !.cmderr = 3]
        ELSE IF opc = 3 /\ f3 \in {0, 1, 2, 4, 5} THEN
            LET r == DevLoad(d, AlignW(aL))
                k == aL[2] % 4
                v == CASE f3 = 0 -> SignExt8(ByteOf(r.v, k))
                       [] f3 = 1 -> SignExt16(HalfOf(r.v, k))
                       [] f3 = 2 -> r.v
                       [] f3 = 4 -> W(0, ByteOf(r.v, k))
                       [] OTHER  -> W(0, HalfOf(r.v, k))
            IN  SetReg(r.d, rd, v)
        ELSE IF opc = 35 /\ f3 \in {0, 1, 2} /\ rs2 < 16 THEN
            LET k   == aS[2] % 4
                old == DevLoad(d, AlignW(aS)).v
                v   == CASE f3 = 0 -> SetByte(old, k, Reg(d, rs2)[2] % 256)
                         [] f3 = 1 -> SetHalf(old, k, Reg(d, rs2)[2])
                         [] OTHER  -> Reg(d, rs2)
            IN  DevStore(d, AlignW(aS), v)
        ELSE [d EXCEPT !.cmderr = 3]

\* the program buffer as a list of 16-bit parcels
PBHalves(d) == <<d.pb[1][2], d.pb[1][1], d.pb[2][2], d.pb[2][1], d.pb[3][2], d.pb[3][1]>>

\* the core runs the program buffer from parcel i up to its ebreak
RECURSIVE RunPB(_, _)
RunPB(d, i) ==
    IF i > 6 THEN [d EXCEPT !.cmderr = 3]
    ELSE LET h == PBHalves(d)[i]
             next(d2, j) == IF d2.cmderr # 0 THEN d2 ELSE RunPB(d2, j)
         IN  IF h % 4 = 3 THEN
                 IF i = 6 THEN [d EXCEPT !.cmderr = 3]
                 ELSE IF W(PBHalves(d)[i + 1], h) = W(\h0010, \h0073) THEN d
                 ELSE next(Step32(d, W(PBHalves(d)[i + 1], h)), i + 2)
             ELSE IF h = \h9002 THEN d
             ELSE next(CStep(d, h), i + 1)

\* the abstract command in the command register is executed: an optional
\* transfer between data0 and a GPR, then (postexec) the program buffer
ExecCommand(d) ==
    IF d.cmderr # 0 THEN d
    ELSE LET hi       == d.cmd[1]
             r        == d.cmd[2] - \h1000
             transfer == (hi \div 2) % 2 = 1
             write    == hi % 2 = 1
             postexec == (hi \div 4) % 2 = 1
             d1 == IF hi \div 256 # 0 THEN [d EXCEPT !.cmderr = 2]
                   ELSE IF ~transfer THEN d
                   ELSE IF r \notin 0..15 THEN [d EXCEPT !.cmderr = 2]
                   ELSE IF write THEN SetReg(d, r, d.data0)
                   ELSE [d EXCEPT !.data0 = Reg(d, r)]
             run(d2) == IF postexec /\ d2.cmderr = 0 THEN RunPB(d2, 1) ELSE d2
             done(d2) == [d2 EXCEPT !.absbusy = d.scn.opdelay, !.nexec = @ + 1]
         IN  done(run(d1))

\* the probe writes a debug module register; a write to a data or program
\* buffer register whose autoexec bit is set runs the command again
DMWrite(d, reg, v) ==
    LET k  == reg - DMPROGBUF0
        d1 == CASE reg = DMDATA0        -> [d EXCEPT !.data0 = v]
                [] reg = DMDATA1        -> [d EXCEPT !.data1 = v]
                [] reg = DMCOMMAND      -> [d EXCEPT !.cmd = v]
                [] reg = DMABSTRACTAUTO -> [d EXCEPT !.auto = v]
                [] reg \in {DMPROGBUF0, DMPROGBUF1, DMPROGBUF2} -> [d EXCEPT !.pb[k + 1] = v]
                [] reg = DMABSTRACTCS   ->
                     [d EXCEPT !.cmderr = IF (v[2] \div 256) % 8 = 7 THEN 0 ELSE @]
                [] OTHER -> [d EXCEPT !.ctl = Append(@, <<reg, v>>)]
        trig == CASE reg = DMDATA0   -> Bit(d.auto, 0) = 1
                  [] reg = DMDATA1   -> Bit(d.auto, 1) = 1
                  [] reg = DMCOMMAND -> TRUE
                  [] reg \in {DMPROGBUF0, DMPROGBUF1, DMPROGBUF2} -> Bit(d.auto, 16 + k) = 1
                  [] OTHER -> FALSE
    IN  IF trig THEN ExecCommand(d1) ELSE d1

\* the probe reads a debug module register; a read of a data register whose
\* autoexec bit is set runs the command again after the value is taken.
\* nhart counts the reads of hartinfo since power-on.
DMRead(d, reg) ==
    LET v == CASE reg = DMDATA0      -> d.data0
               [] reg = DMDATA1      -> d.data1
               [] reg = DMABSTRACTCS ->
                    W(0, (IF d.absbusy # 0 THEN 4096 ELSE 0) + 256 * d.cmderr)
               [] reg = DMHARTINFO   -> DevHartInfo
               [] OTHER -> ZERO
        trig == (reg = DMDATA0 /\ Bit(d.auto, 0) = 1) \/ (reg = DMDATA1 /\ Bit(d.auto, 1) = 1)
        d1 == IF reg = DMABSTRACTCS
              THEN [d EXCEPT !.absbusy = IF @ > 0 THEN @ - 1 ELSE @]
              ELSE IF reg = DMHARTINFO THEN [d EXCEPT !.nhart = @ + 1]
              ELSE d
    IN  [d |-> IF trig THEN ExecCommand(d1) ELSE d1, v |-> v]

\* ------------------------------------------------------------------------
\* The link transport and the register accessor.
\* A world w is what one method works on: the session w.s, the device w.d,
\* the transactions issued so far w.log, the pending exception w.err ("ok"
\* when none), the value of the last register read w.rd, the value the
\* method returns w.ret, and the transport fault w.fault that hits
\* transaction number w.fault.at (the device has or has not acted on the
\* transaction the fault hits: w.fault.exec).  w.rep lists, for the register
\* accesses, the reply that came: <<kind, address sent, length of the reply,
\* reply[3]>>, with length 0 when the read of the reply timed out.
\* ------------------------------------------------------------------------
OK == "ok"
NoFault == [at |-> 0, kind |-> "none", exec |-> TRUE, val |-> ZERO, len |-> 9, eoff |-> 0]

World(s, d, f) ==
    [s |-> s, d |-> d, log |-> <<>>, err |-> OK, rd |-> ZERO, ret |-> ZERO, n |-> 0,
     fault |-> f, rep |-> <<>>]

Fail(w, msg) == IF w.err # OK THEN w ELSE [w EXCEPT !.err = msg]

\* Send command to programmer: write the stream, read the reply.  The
\* third field of the log entry tells whether the stream went out.
sendcommand(w, stream) ==
    IF w.err # OK THEN w
    ELSE LET hit == w.fault.at = w.n + 1 IN
         [w EXCEPT !.n = @ + 1,
                   !.log = Append(@, <<"C", stream,
                                       IF hit /\ ~w.fault.exec THEN ZERO ELSE W(0, 1)>>),
                   !.err = IF hit /\ w.fault.kind = "timeout" THEN "USBError" ELSE OK]

\* a bare write on the command endpoint
devwrite(w, stream) ==
    IF w.err # OK THEN w
    ELSE LET hit == w.fault.at = w.n + 1 IN
         [w EXCEPT !.n = @ + 1,
                   !.log = Append(@, <<"C", stream, IF hit THEN ZERO ELSE W(0, 1)>>),
                   !.err = IF hit THEN "USBError" ELSE OK]

\* the command that announces a blob: start address and padded length
sendblob(w, addr, n) ==
    IF w.err # OK THEN w
    ELSE LET hit == w.fault.at = w.n + 1 IN
         [w EXCEPT !.n = @ + 1,
                   !.log = Append(@, <<"C", "810108",
                                       IF hit /\ ~w.fault.exec THEN ZERO ELSE W(0, 1),
                                       addr, n>>),
                   !.err = IF hit /\ w.fault.kind = "timeout" THEN "USBError" ELSE OK]

\* a write on the raw data endpoint
rawwrite(w, page) ==
    IF w.err # OK THEN w
    ELSE LET hit == w.fault.at = w.n + 1 IN
         [w EXCEPT !.n = @ + 1,
                   !.log = Append(@, <<"X", page, IF hit THEN ZERO ELSE W(0, 1)>>),
                   !.err = IF hit THEN "USBError" ELSE OK]

\* set(reply) != set((0x41, 0x01, 0x01, 0x04)): the reply is judged by the
\* set of its bytes
BadVerdict(reply) == {reply[i] : i \in DOMAIN reply} # {65, 1, 4}

\* the loader's verdict is read from the raw data endpoint: the reply is
\* the byte string scn.rawreply
rawread(w) ==
    IF w.err # OK THEN w
    ELSE LET hit == w.fault.at = w.n + 1 IN
         [w EXCEPT !.n = @ + 1,
                   !.log = Append(@, <<"Y", ZERO, ZERO>>),
                   !.err = IF hit /\ w.fault.kind = "timeout" THEN "USBError"
                           ELSE IF hit \/ BadVerdict(w.d.scn.rawreply)
                                THEN "Failed writing/verifying data blob"
                           ELSE OK]

\* a write to the programmer found in ARM mode
armwrite(w, stream) ==
    IF w.err # OK THEN w
    ELSE LET hit == w.fault.at = w.n + 1 IN
         [w EXCEPT !.n = @ + 1,
                   !.log = Append(@, <<"A", stream, IF hit THEN ZERO ELSE W(0, 1)>>),
                   !.err = IF hit THEN "USBError" ELSE OK]

\* the reply to a register access: <<len(reply), reply[3]>>.  The link
\* answers with 9 bytes that repeat the address; a fault brings no reply, or
\* one of another length or with another byte in place of the address.
Reply(w, hit, addr) ==
    IF ~hit THEN <<9, addr % 128>>
    ELSE IF w.fault.kind = "timeout" THEN <<0, 0>>
    ELSE <<w.fault.len, ((addr % 128) + w.fault.eoff) % 256>>

\* a check of the length alone
BadReply_lenonly(r, addr) == r[1] # 9

\* (len(reply) != 9) or (reply[3] != addr&0x7F)
BadReply(r, addr) == r[1] # 9 \/ r[2] # addr % 128

\* the class of the calibrator's tool keeps the chip series in the session
IsCal(s) == "chipseries" \in DOMAIN s

\* Write to MCU register: the reply is checked for length and address
writereg(w, addr, data) ==
    IF w.err # OK THEN w
    ELSE LET hit == w.fault.at = w.n + 1
             fin(r) == [w EXCEPT !.n = @ + 1,
                                 !.d = IF hit /\ ~w.fault.exec THEN @
                                       ELSE DMWrite(@, addr % 128, data),
                                 !.log = Append(@, <<"W", addr % 128, data>>),
                                 !.rep = Append(@, <<"W", addr % 128>> \o r),
                                 !.err = IF r[1] = 0 THEN "USBError"
                                         ELSE IF BadReply(r, addr)
                                              THEN "Failed to write register"
                                         ELSE OK]
         IN  fin(Reply(w, hit, addr))

\* Read from MCU register: bytes 4..7 of whatever reply came (none of
\* them in a reply of 4 bytes: the value is 0); the calibrator's tool checks
\* the reply for length and address first
readreg(w, addr) ==
    IF w.err # OK THEN w
    ELSE LET hit == w.fault.at = w.n + 1
             fin(r, y) ==
                 [w EXCEPT !.n = @ + 1,
                           !.d = r.d,
                           !.log = Append(@, <<"R", addr % 128, ZERO>>),
                           !.rep = Append(@, <<"R", addr % 128>> \o y),
                           !.err = IF y[1] = 0 THEN "USBError"
                                   ELSE IF IsCal(w.s) /\ BadReply(y, addr)
                                        THEN "Failed to read register"
                                   ELSE OK,
                           !.rd = IF ~hit THEN r.v
                                  ELSE IF y[1] = 0 \/ (IsCal(w.s) /\ BadReply(y, addr)) THEN @
                                  ELSE IF y[1] < 8 THEN ZERO
                                  ELSE w.fault.val]
         IN  fin(IF hit /\ ~w.fault.exec THEN [d |-> w.d, v |-> ZERO]
                 ELSE DMRead(w.d, addr % 128),
                 Reply(w, hit, addr))

\* Wait for last operation finished.  while True: read abstractcs until
\* busy is clear.  Against a module that stays busy for ever the loop never
\* ends ("HANG") unless a transport fault still lies ahead.
RECURSIVE waitopdone(_)
waitopdone(w) ==
    IF w.err # OK THEN w
    ELSE LET chk(w1) ==
                 IF w1.err # OK THEN w1
                 ELSE IF Bit(w1.rd, 12) = 1 THEN
                     IF w1.d.absbusy = -1 /\ w1.fault.at <= w1.n
                     THEN [w1 EXCEPT !.err = "HANG"]
                     ELSE waitopdone(w1)
                 ELSE IF (w1.rd[2] \div 256) % 8 # 0 THEN
                     Fail(writereg(w1, DMABSTRACTCS, W(0, \h0700)),
                          "Failed to conduct operation")
                 ELSE w1
         IN  chk(readreg(w, DMABSTRACTCS))

\* ------------------------------------------------------------------------
\* A method of the memory access layer is the list of its statements, in
\* the order it executes them from the session it is entered with:
\*   <<"W", reg, v>>     self.writereg(reg, v)
\*   <<"WOFF", reg, k>>  self.writereg(reg, data0offset + k), data0offset
\*                       computed from the register value just read
\*   <<"R", reg>>        x = self.readreg(reg)
\*   <<"RET">>           data = x (the value the method returns)
\*   <<"WAIT">>          self.waitopdone()
\*   <<"WAITEND">>       if self.stateval == CH_RAM_BASE + CH_RAM_SIZE:
\*                           self.waitopdone()
\*   <<"TAG", t>>        self.statetag = t
\*   <<"VAL", v>>        self.stateval = v
\*   <<"BUMP">>          self.stateval += 4
\*   <<"BUMPA">>         if self.autoincrement: self.stateval += 4
\*   <<"AUTO", k>>       self.autoincrement = k
\*   <<"C", stream>>     self.sendcommand(stream)
\*   <<"WR", stream>>    self.dev.write(CH_EP_OUT, stream)
\*   <<"CB", a, n>>      self.sendcommand(the blob announcement for a, n)
\*   <<"UNLK", stream>>  if the reply says read-protected:
\*                           self.sendcommand(stream)
\*   <<"RAW", page>>     self.dev.write(CH_EP_OUT_RAW, page)
\*   <<"RAWREAD">>       the check of the reply read from CH_EP_IN_RAW
\*   <<"ARM", stream>>   armlink.write(0x02, stream), if an armlink is found
\*   <<"FIND">>, <<"LINKE">>, <<"MCU">>  the checks of __init__ and connect
\*   <<"PROBE">>         reply = the answer to the chip-identify command
\*   <<"FLAGS">>         the internal flags as connect sets them up
\* ------------------------------------------------------------------------
NoSession ==
    [statetag |-> "none", stateval |-> MINUS1, haltmode |-> -1, flashunlocked |-> 0,
     autoincrement |-> 0, lastwriteflags |-> 0]

ConnectFlags ==
    [statetag |-> "STRT", stateval |-> MINUS1, haltmode |-> -1, flashunlocked |-> 0,
     autoincrement |-> 0, lastwriteflags |-> 0]

\* a cache that forgets that the device has moved on to the next word
bump_none(w) == w

\* a cache that advances by one byte
bump_byte(w) == [w EXCEPT !.s.stateval = PyAdd(@, 1)]

\* self.stateval += 4
bump(w) == [w EXCEPT !.s.stateval = PyAdd(@, 4)]

\* the reply to the chip-identify command 81 0d 01 02 as connect reads it:
\* <<0, 0>> for a reply of fewer than 8 bytes or one that starts 81 55 01 01,
\* else <<1, (reply[4] << 8) + reply[5]>>.  The device answers probe k with
\* scn.probe[k], and with the id of a CH32V003J4M6 after these.
ProbeAnswer(d) ==
    IF d.nprobe + 1 <= Len(d.scn.probe) THEN d.scn.probe[d.nprobe + 1] ELSE W(1, 51)

\* self.dev.read(ep, CH_PACKET_SIZE, 1): one reply that waits in the reply
\* endpoint ep ("in" for commands, "raw" for raw data) is taken out of it;
\* the read times out when there is none.  d.epin and d.epraw are the
\* numbers of replies that wait.
ShortRead(w, ep) ==
    LET n  == IF ep = "in" THEN w.d.epin ELSE w.d.epraw
        d1 == IF n = 0 THEN w.d
              ELSE IF ep = "in" THEN [w.d EXCEPT !.epin = n - 1]
              ELSE [w.d EXCEPT !.epraw = n - 1]
    IN  [w EXCEPT !.d = d1,
                  !.log = Append(@, <<"D", ep, IF n = 0 THEN "timeout" ELSE "reply">>)]

\* Clear USB receive buffers (calibrator): each read in a try of its own
cal_clearreply(w) == ShortRead(ShortRead(w, "in"), "raw")

\* Clear USB receive buffers (tiny_arkanoid): both reads in one try, the
\* exception of the first read skips the second
ark_clearreply(w) ==
    IF w.d.epin = 0 THEN ShortRead(w, "in")
    ELSE ShortRead(ShortRead(w, "in"), "raw")

Exec(w, it) ==
    LET k == it[1] IN
    CASE k \in {"W", "WOFF"} ->
           writereg(w, it[2],
                    IF k = "W" THEN it[3]
                    ELSE PyAdd(OrW(W(\hE000, 0), AndW(w.rd, W(0, \h07FF))), it[3]))
      [] k = "R"    -> readreg(w, it[2])
      [] k = "RET"  -> [w EXCEPT !.ret = w.rd]
      [] k \in {"WAIT", "WAITEND"} ->
           IF k = "WAIT" \/ w.s.stateval = PyAdd(CH_RAM_BASE, CH_RAM_SIZE)
           THEN waitopdone(w) ELSE w
      [] k = "TAG"   -> [w EXCEPT !.s.statetag = it[2]]
      [] k = "VAL"   -> [w EXCEPT !.s.stateval = it[2]]
      [] k = "BUMP"  -> bump(w)
      [] k = "BUMPA" -> IF w.s.autoincrement # 0 THEN bump(w) ELSE w
      [] k = "AUTO"  -> [w EXCEPT !.s.autoincrement = it[2]]
      [] k = "C"     -> sendcommand(w, it[2])
      [] k = "WR"    -> devwrite(w, it[2])
      [] k = "CB"    -> sendblob(w, it[2], it[3])
      [] k = "UNLK"  -> IF w.d.scn.rdprot /\ it[2] # ""
                        THEN sendcommand(w, it[2]) ELSE w
      [] k = "RAW"   -> rawwrite(w, it[2])
      [] k = "RAWREAD" -> rawread(w)
      [] k = "ARM"   -> IF ~w.d.scn.armlink THEN Fail(w, "No WCH-Link in ARM mode found!")
                        ELSE armwrite(w, it[2])
      [] k = "FIND"  -> IF w.d.scn.link = "none"
                        THEN Fail(w, "WCH-Link not found. Check if device is in RISC-V mode")
                        ELSE w
      [] k = "LINKE" -> IF w.d.scn.link # "linkE"
                        THEN Fail(w, "Programmer is not a WCH-LinkE") ELSE w
      [] k = "FINDE" -> IF w.d.scn.link = "none"
                        THEN Fail(w, "WCH-LinkE not found. Check if device is in RISC-V mode")
                        ELSE w
      [] k = "LINKS" -> IF w.d.scn.link \notin {"linkE", "ch549"}
                        THEN Fail(w, "Unknown programmer") ELSE w
      [] k = "CLEAR" -> IF it[2] = "calibrator" THEN cal_clearreply(w)
                        ELSE ark_clearreply(w)
      [] k = "PROBE" -> [w EXCEPT !.ret = ProbeAnswer(w.d), !.d.nprobe = @ + 1]
      [] k = "MCU"   -> IF w.d.scn.mcu = "none" THEN Fail(w, "No MCU is connected to device")
                        ELSE IF w.d.scn.mcu # "v003"
                             THEN Fail(w, "Target MCU is not a CH32V003")
                        ELSE w
      [] OTHER       -> [w EXCEPT !.s = ConnectFlags]

\* the statements are executed in order; an exception ends the method
RECURSIVE Run(_, _)
Run(w, body) ==
    IF body = <<>> \/ w.err # OK THEN w
    ELSE Run(Exec(w, Head(body)), Tail(body))

Wr(reg, v) == <<"W", reg, v>>

\* Update PROGBUF registers
updateprogbufregs ==
    << <<"R", DMHARTINFO>>,
       <<"WOFF", DMDATA0, 0>>,
       Wr(DMCOMMAND, W(\h0023, \h100A)),
       <<"WOFF", DMDATA0, 4>>,
       Wr(DMCOMMAND, W(\h0023, \h100B)),
       Wr(DMDATA0,   W(\h4002, \h2010)),
       Wr(DMCOMMAND, W(\h0023, \h100C)),
       Wr(DMDATA0,   W(\h0005, \h0000)),
       Wr(DMCOMMAND, W(\h0023, \h100D)) >>

\* Write 8-bit byte
writebyte(addr, data) ==
    << <<"TAG", "XXXX">>,
       Wr(DMABSTRACTAUTO, W(\h0084, \h8023)),
       Wr(DMPROGBUF0,     W(\h0004, \h9403)),
       Wr(DMPROGBUF1,     W(\h0010, \h0073)),
       Wr(DMDATA0,        addr),
       Wr(DMCOMMAND,      W(\h0023, \h1009)),
       Wr(DMDATA0,        data),
       Wr(DMCOMMAND,      W(\h0027, \h1008)),
       <<"WAIT">>,
       <<"VAL", MINUS1>> >>

\* Read 8-bit byte
readbyte(addr) ==
    << <<"TAG", "XXXX">>,
       Wr(DMABSTRACTAUTO, ZERO),
       Wr(DMPROGBUF0,     W(\h0004, \h8403)),
       Wr(DMPROGBUF1,     W(\h0010, \h0073)),
       Wr(DMDATA0,        addr),
       Wr(DMCOMMAND,      W(\h0023, \h1009)),
       Wr(DMCOMMAND,      W(\h0024, \h1000)),
       Wr(DMCOMMAND,      W(\h0022, \h1008)),
       <<"WAIT">>,
       <<"VAL", MINUS1>>,
       <<"R", DMDATA0>>,
       <<"RET">> >>

\* Write 16-bit halfword
writehalfword(addr, data) ==
    << <<"TAG", "XXXX">>,
       Wr(DMABSTRACTAUTO, ZERO),
       Wr(DMPROGBUF0,     W(\h0084, \h9023)),
       Wr(DMPROGBUF1,     W(\h0010, \h0073)),
       Wr(DMDATA0,        addr),
       Wr(DMCOMMAND,      W(\h0023, \h1009)),
       Wr(DMDATA0,        data),
       Wr(DMCOMMAND,      W(\h0027, \h1008)),
       <<"WAIT">>,
       <<"VAL", MINUS1>> >>

\* a halfword read that leaves the state tag alone
readhalfword_notag(addr) ==
    << Wr(DMABSTRACTAUTO, ZERO),
       Wr(DMPROGBUF0,     W(\h0004, \h9403)),
       Wr(DMPROGBUF1,     W(\h0010, \h0073)),
       Wr(DMDATA0,        addr),
       Wr(DMCOMMAND,      W(\h0023, \h1009)),
       Wr(DMCOMMAND,      W(\h0024, \h1000)),
       Wr(DMCOMMAND,      W(\h0022, \h1008)),
       <<"WAIT">>,
       <<"VAL", MINUS1>>,
       <<"R", DMDATA0>>,
       <<"RET">> >>

\* Read 16-bit halfword
readhalfword(addr) ==
    << <<"TAG", "XXXX">>,
       Wr(DMABSTRACTAUTO, ZERO),
       Wr(DMPROGBUF0,     W(\h0004, \h9403)),
       Wr(DMPROGBUF1,     W(\h0010, \h0073)),
       Wr(DMDATA0,        addr),
       Wr(DMCOMMAND,      W(\h0023, \h1009)),
       Wr(DMCOMMAND,      W(\h0024, \h1000)),
       Wr(DMCOMMAND,      W(\h0022, \h1008)),
       <<"WAIT">>,
       <<"VAL", MINUS1>>,
       <<"R", DMDATA0>>,
       <<"RET">> >>

\* flash-mapped (code flash or boot area) or not
IsFlash(addr) ==
    IF AndW(addr, W(\hFF00, \h0000)) = W(\h0800, \h0000)
       \/ AndW(addr, W(\h1FFF, \hF800)) = W(\h1FFF, \hF000)
    THEN 1 ELSE 0

\* what "if c:" selects
When(c, body) == IF c THEN body ELSE <<>>

\* Write 32-bit word
writeword(s, addr, data) ==
    LET isflash == IsFlash(addr)
        notwrsq == s.statetag # "WRSQ"
        changed == isflash # s.lastwriteflags
    IN  IF notwrsq \/ changed THEN
               When(notwrsq,
                    << Wr(DMABSTRACTAUTO, ZERO),
                       Wr(DMPROGBUF0, W(\hC080, \h4184)),
                       Wr(DMPROGBUF1, W(\hC184, \h0491)) >>
                    \o When(s.statetag # "RDSQ", updateprogbufregs))
            \o When(changed \/ notwrsq,
                    << Wr(DMPROGBUF2, IF isflash = 1 THEN W(\h9002, \hC214)
                                      ELSE W(\h0001, \h9002)) >>)
            \o << Wr(DMDATA1, addr), Wr(DMDATA0, data) >>
            \o When(notwrsq,
                    << Wr(DMCOMMAND, W(\h0027, \h1008)), Wr(DMABSTRACTAUTO, W(0, 1)) >>)
            \o << <<"TAG", "WRSQ">>, <<"VAL", addr>> >>
            \o When(isflash = 1, << <<"WAIT">> >>)
            \o << <<"BUMP">> >>
        ELSE
               When(addr # s.stateval,
                    << Wr(DMABSTRACTAUTO, ZERO),
                       Wr(DMDATA1, addr),
                       Wr(DMABSTRACTAUTO, W(0, 1)),
                       <<"VAL", addr>> >>)
            \o << Wr(DMDATA0, data), <<"WAIT">> >>
            \o << <<"BUMP">> >>

\* Read 32-bit word
readword(s, addr) ==
    LET autoincrement == IF addr = W(\h4002, \h2010) \/ addr = W(\h4002, \h200C) THEN 0 ELSE 1
        notrdsq == s.statetag # "RDSQ"
    IN     When(notrdsq \/ addr # s.stateval \/ autoincrement # s.autoincrement,
                When(notrdsq,
                     << Wr(DMABSTRACTAUTO, ZERO),
                        Wr(DMPROGBUF0, W(\h4004, \h4180)),
                        Wr(DMPROGBUF1, IF autoincrement = 1 THEN W(\hC104, \h0411)
                                       ELSE W(\hC104, \h0001)),
                        Wr(DMPROGBUF2, W(\h9002, \hC180)) >>
                     \o When(s.statetag # "WRSQ", updateprogbufregs)
                     \o << Wr(DMABSTRACTAUTO, W(0, 1)), <<"AUTO", autoincrement>> >>)
                \o << Wr(DMDATA1, addr),
                      Wr(DMCOMMAND, W(\h0024, \h1000)),
                      <<"TAG", "RDSQ">>,
                      <<"VAL", addr>>,
                      <<"WAIT">> >>)
        \o << <<"BUMPA">>, <<"R", DMDATA0>>, <<"RET">>, <<"WAITEND">> >>

\* ------------------------------------------------------------------------
\* Byte strings
\* ------------------------------------------------------------------------
Min(a, b) == IF a < b THEN a ELSE b

\* b'\xff' * n
FFs(n) == [i \in 1..n |-> 255]

\* data[i:j] of Python (0-based, j exclusive, clipped)
Slice(data, i, j) == SubSeq(data, i + 1, Min(j, Len(data)))

\* int.from_bytes(bs, byteorder='little') for up to four bytes
FromBytesLE(bs) ==
    LET b(i) == IF i <= Len(bs) THEN bs[i] ELSE 0
    IN  W(b(3) + 256 * b(4), b(1) + 256 * b(2))

\* v.to_bytes(4, byteorder='little')
ToBytes4LE(v) == <<v[2] % 256, v[2] \div 256, v[1] % 256, v[1] \div 256>>

\* Pad data so that there are full pages
\* padding with zero bytes
pad_data_zero(data, pagesize) ==
    IF Len(data) % pagesize = 0 THEN data
    ELSE data \o [i \in 1..(pagesize - (Len(data) % pagesize)) |-> 0]

pad_data(data, pagesize) ==
    IF Len(data) % pagesize = 0 THEN data
    ELSE data \o FFs(pagesize - (Len(data) % pagesize))

\* Divide data into pages: one page is appended while
\* len(result) < total_length / size
page_data(data, size) ==
    LET npages == (Len(data) + size - 1) \div size
    IN  [k \in 1..npages |-> Slice(data, (k - 1) * size, k * size)]

\* ------------------------------------------------------------------------
\* The methods above the word accesses, statement by statement.  A frame
\* is a method in progress: its name fn, its position pc and its locals l.
\* Instr(f, r, s) is the next thing frame f does when the last call
\* returned r and the session is s: a memory access or register run
\* ("prim"), a call of another method, a return or a raise.
\* ------------------------------------------------------------------------
Prm(op, a, v, nx, l, s) == [k |-> "prim", op |-> op, a |-> a, v |-> v, nx |-> nx, l |-> l, s |-> s]
Cal(fn, l0, nx, l, s)   == [k |-> "call", fn |-> fn, l0 |-> l0, nx |-> nx, l |-> l, s |-> s]
Ret(v, s)               == [k |-> "ret", v |-> v, s |-> s]
Rse(msg, s)             == [k |-> "raise", msg |-> msg, s |-> s]

\* Unlock flash
\* an unlock that sets the flag before it has seen the lock bits clear
I_unlockflash_hasty(f, r, s) ==
    LET s1 == [s EXCEPT !.flashunlocked = 1]
        ww(a, v, nx) == Prm("writeword", a, v, nx, f.l, s1)
    IN  CASE f.pc = 0 -> Prm("readword", W(\h4002, \h2010), ZERO, 1, f.l, s)
          [] f.pc = 1 -> IF And16(r[2], \h8080) # 0
                         THEN ww(W(\h4002, \h2004), W(\h4567, \h0123), 2)
                         ELSE Ret(ZERO, s1)
          [] f.pc = 2 -> ww(W(\h4002, \h2004), W(\hCDEF, \h89AB), 3)
          [] f.pc = 3 -> ww(W(\h4002, \h2008), W(\h4567, \h0123), 4)
          [] f.pc = 4 -> ww(W(\h4002, \h2008), W(\hCDEF, \h89AB), 5)
          [] f.pc = 5 -> ww(W(\h4002, \h2024), W(\h4567, \h0123), 6)
          [] f.pc = 6 -> ww(W(\h4002, \h2024), W(\hCDEF, \h89AB), 7)
          [] f.pc = 7 -> Prm("readword", W(\h4002, \h2010), ZERO, 8, f.l, s)
          [] OTHER    -> IF And16(r[2], \h8080) # 0
                         THEN Rse("Failed to unlock FLASH", s)
                         ELSE Ret(ZERO, s)

\* an unlock that sends the keys whatever the control register says
I_unlockflash_nocheck(f, r, s) ==
    LET done == Ret(ZERO, [s EXCEPT !.flashunlocked = 1])
        ww(a, v, nx) == Prm("writeword", a, v, nx, f.l, s)
    IN  CASE f.pc = 0 -> Prm("readword", W(\h4002, \h2010), ZERO, 1, f.l, s)
          [] f.pc = 1 -> ww(W(\h4002, \h2004), W(\h4567, \h0123), 2)
          [] f.pc = 2 -> ww(W(\h4002, \h2004), W(\hCDEF, \h89AB), 3)
          [] f.pc = 3 -> ww(W(\h4002, \h2008), W(\h4567, \h0123), 4)
          [] f.pc = 4 -> ww(W(\h4002, \h2008), W(\hCDEF, \h89AB), 5)
          [] f.pc = 5 -> ww(W(\h4002, \h2024), W(\h4567, \h0123), 6)
          [] f.pc = 6 -> ww(W(\h4002, \h2024), W(\hCDEF, \h89AB), 7)
          [] f.pc = 7 -> Prm("readword", W(\h4002, \h2010), ZERO, 8, f.l, s)
          [] OTHER    -> IF And16(r[2], \h8080) # 0
                         THEN Rse("Failed to unlock FLASH", s)
                         ELSE done

I_unlockflash(f, r, s) ==
    LET done == Ret(ZERO, [s EXCEPT !.flashunlocked = 1])
        ww(a, v, nx) == Prm("writeword", a, v, nx, f.l, s)
    IN  CASE f.pc = 0 -> Prm("readword", W(\h4002, \h2010), ZERO, 1, f.l, s)
          [] f.pc = 1 -> IF And16(r[2], \h8080) # 0
                         THEN ww(W(\h4002, \h2004), W(\h4567, \h0123), 2)
                         ELSE done
          [] f.pc = 2 -> ww(W(\h4002, \h2004), W(\hCDEF, \h89AB), 3)
          [] f.pc = 3 -> ww(W(\h4002, \h2008), W(\h4567, \h0123), 4)
          [] f.pc = 4 -> ww(W(\h4002, \h2008), W(\hCDEF, \h89AB), 5)
          [] f.pc = 5 -> ww(W(\h4002, \h2024), W(\h4567, \h0123), 6)
          [] f.pc = 6 -> ww(W(\h4002, \h2024), W(\hCDEF, \h89AB), 7)
          [] f.pc = 7 -> Prm("readword", W(\h4002, \h2010), ZERO, 8, f.l, s)
          [] OTHER    -> IF And16(r[2], \h8080) # 0
                         THEN Rse("Failed to unlock FLASH", s)
                         ELSE done

FLASH_POLLS == 100

\* a wait that gives up one poll late
I_waitforflash_late(f, r, s) ==
    IF f.pc = 0 THEN Prm("readword", W(\h4002, \h200C), ZERO, 1, f.l, s)
    ELSE IF And16(r[2], 1) = 0 THEN
        IF And16(r[2], 16) > 0 THEN Rse("FLASH is protected", s) ELSE Ret(ZERO, s)
    ELSE IF f.l.timeout = 0 THEN Rse("Timout waiting for FLASH", s)
    ELSE Prm("readword", W(\h4002, \h200C), ZERO, 1, [f.l EXCEPT !.timeout = @ - 1], s)

\* a wait that takes the protection bit of any read for an error
I_waitforflash_eager(f, r, s) ==
    IF f.pc = 0 THEN Prm("readword", W(\h4002, \h200C), ZERO, 1, f.l, s)
    ELSE IF And16(r[2], 16) > 0 THEN Rse("FLASH is protected", s)
    ELSE IF And16(r[2], 1) = 0 THEN Ret(ZERO, s)
    ELSE IF f.l.timeout - 1 = 0 THEN Rse("Timout waiting for FLASH", s)
    ELSE Prm("readword", W(\h4002, \h200C), ZERO, 1, [f.l EXCEPT !.timeout = @ - 1], s)

\* Wait for flash page written
I_waitforflash(f, r, s) ==
    IF f.pc = 0 THEN Prm("readword", W(\h4002, \h200C), ZERO, 1, f.l, s)
    ELSE IF And16(r[2], 1) = 0 THEN
        IF And16(r[2], 16) > 0 THEN Rse("FLASH is protected", s) ELSE Ret(ZERO, s)
    ELSE IF f.l.timeout - 1 = 0 THEN Rse("Timout waiting for FLASH", s)
    ELSE Prm("readword", W(\h4002, \h200C), ZERO, 1, [f.l EXCEPT !.timeout = @ - 1], s)

NewWait == [timeout |-> FLASH_POLLS]

\* Erase flash page
\* an erase that does not care whether the flash was unlocked
I_erasepage_nounlock(f, r, s) ==
    LET ww(a, v, nx) == Prm("writeword", a, v, nx, f.l, s)
    IN  CASE f.pc = 0 -> ww(W(\h4002, \h2010), W(2, 0), 2)
          [] f.pc = 2 -> ww(W(\h4002, \h2014), f.l.base, 3)
          [] f.pc = 3 -> ww(W(\h4002, \h2010), W(2, 64), 4)
          [] f.pc = 4 -> Cal("waitforflash", NewWait, 5, f.l, s)
          [] f.pc = 5 -> ww(W(\h4002, \h2010), ZERO, 6)
          [] OTHER    -> Ret(ZERO, s)

I_erasepage(f, r, s) ==
    LET ww(a, v, nx) == Prm("writeword", a, v, nx, f.l, s)
    IN  CASE f.pc = 0 /\ s.flashunlocked < 1 -> Cal("unlockflash", [none |-> 0], 1, f.l, s)
          [] f.pc = 0 /\ s.flashunlocked >= 1 -> ww(W(\h4002, \h2010), W(2, 0), 2)
          [] f.pc = 1 -> ww(W(\h4002, \h2010), W(2, 0), 2)
          [] f.pc = 2 -> ww(W(\h4002, \h2014), f.l.base, 3)
          [] f.pc = 3 -> ww(W(\h4002, \h2010), W(2, 64), 4)
          [] f.pc = 4 -> Cal("waitforflash", NewWait, 5, f.l, s)
          [] f.pc = 5 -> ww(W(\h4002, \h2010), ZERO, 6)
          [] OTHER    -> Ret(ZERO, s)

\* Whole-chip erase
I_erasechip(f, r, s) ==
    LET sx == [s EXCEPT !.statetag = "XXXX"]
    IN  CASE f.pc = 0 /\ s.flashunlocked < 1 -> Cal("unlockflash", [none |-> 0], 1, f.l, s)
          [] f.pc = 0 /\ s.flashunlocked >= 1 ->
                Prm("writeword", W(\h4002, \h2010), W(0, 4), 2, f.l, sx)
          [] f.pc = 1 -> Prm("writeword", W(\h4002, \h2010), W(0, 4), 2, f.l, sx)
          [] f.pc = 2 -> Prm("writeword", W(\h4002, \h2010), W(0, 68), 3, f.l, s)
          [] f.pc = 3 -> Cal("waitforflash", NewWait, 4, f.l, s)
          [] f.pc = 4 -> Prm("writeword", W(\h4002, \h2010), ZERO, 5, f.l, s)
          [] OTHER    -> Ret(ZERO, s)

\* Write data blob to flash, 64-byte aligned
\* an alignment test on word boundaries only
Misaligned_word(addr) == And16(addr[2], 3) # 0

\* if addr & 63
Misaligned(addr) == And16(addr[2], 63) # 0

\* a capacity test that lets everything through
TooLarge_never(data, size) == FALSE

\* len(data) > size
TooLarge(data, size) == Len(data) > size

\* a page program that does not erase the page first
I_writebinaryblob_noerase(f, r, s) ==
    LET l == f.l
        ww(a, v, nx, ll) == Prm("writeword", a, v, nx, ll, s)
        word(ll) == ww(ll.addr,
                       FromBytesLE(Slice(ll.pages[ll.pi], ll.x, ll.x + 4)), 5, ll)
    IN  CASE f.pc = 0 ->
               IF Misaligned(l.addr) THEN Rse("Blob is not 64-byte aligned", s)
               ELSE LET pages == page_data(pad_data(l.data, 64), 64) IN
                    IF pages = <<>> THEN Ret(ZERO, s)
                    ELSE ww(W(\h4002, \h2010), W(1, 0), 2,
                            [addr |-> l.addr, data |-> l.data, pages |-> pages,
                             pi |-> 1, x |-> 0, base |-> l.addr])
          [] f.pc = 1  -> ww(W(\h4002, \h2010), W(1, 0), 2, l)
          [] f.pc = 2  -> ww(W(\h4002, \h2010), W(9, 0), 3, l)
          [] f.pc = 3  -> Cal("waitforflash", NewWait, 4, l, s)
          [] f.pc = 4  -> word(l)
          [] f.pc = 5  -> ww(W(\h4002, \h2010), W(5, 0), 6, l)
          [] f.pc = 6  -> Cal("waitforflash", NewWait, 7, l, s)
          [] f.pc = 7  ->
               LET l2 == [l EXCEPT !.addr = PyAdd(@, 4), !.x = @ + 4] IN
               IF l2.x < 64 THEN word(l2)
               ELSE ww(W(\h4002, \h2014), l2.base, 8, l2)
          [] f.pc = 8  -> ww(W(\h4002, \h2010), W(1, 64), 9, l)
          [] f.pc = 9  -> Cal("waitforflash", NewWait, 10, l, s)
          [] f.pc = 10 -> ww(W(\h4002, \h2010), ZERO, 11, l)
          [] OTHER ->
               IF l.pi < Len(l.pages)
               THEN ww(W(\h4002, \h2010), W(1, 0), 2,
                       [l EXCEPT !.pi = @ + 1, !.x = 0, !.base = l.addr])
               ELSE Ret(ZERO, s)

\* for page in pages: erase, fill the buffer word by word, program
I_writebinaryblob(f, r, s) ==
    LET l == f.l
        ww(a, v, nx, ll) == Prm("writeword", a, v, nx, ll, s)
        word(ll) == ww(ll.addr,
                       FromBytesLE(Slice(ll.pages[ll.pi], ll.x, ll.x + 4)), 5, ll)
    IN  CASE f.pc = 0 ->
               IF Misaligned(l.addr) THEN Rse("Blob is not 64-byte aligned", s)
               ELSE LET pages == page_data(pad_data(l.data, 64), 64) IN
                    IF pages = <<>> THEN Ret(ZERO, s)
                    ELSE Cal("erasepage", [base |-> l.addr], 1,
                             [addr |-> l.addr, data |-> l.data, pages |-> pages,
                              pi |-> 1, x |-> 0, base |-> l.addr], s)
          [] f.pc = 1  -> ww(W(\h4002, \h2010), W(1, 0), 2, l)
          [] f.pc = 2  -> ww(W(\h4002, \h2010), W(9, 0), 3, l)
          [] f.pc = 3  -> Cal("waitforflash", NewWait, 4, l, s)
          [] f.pc = 4  -> word(l)
          [] f.pc = 5  -> ww(W(\h4002, \h2010), W(5, 0), 6, l)
          [] f.pc = 6  -> Cal("waitforflash", NewWait, 7, l, s)
          [] f.pc = 7  ->
               LET l2 == [l EXCEPT !.addr = PyAdd(@, 4), !.x = @ + 4] IN
               IF l2.x < 64 THEN word(l2)
               ELSE ww(W(\h4002, \h2014), l2.base, 8, l2)
          [] f.pc = 8  -> ww(W(\h4002, \h2010), W(1, 64), 9, l)
          [] f.pc = 9  -> Cal("waitforflash", NewWait, 10, l, s)
          [] f.pc = 10 -> ww(W(\h4002, \h2010), ZERO, 11, l)
          [] OTHER ->
               IF l.pi < Len(l.pages)
               THEN Cal("erasepage", [base |-> l.addr], 1,
                        [l EXCEPT !.pi = @ + 1, !.x = 0, !.base = l.addr], s)
               ELSE Ret(ZERO, s)

\* Write data to code flash
I_flash_data(f, r, s) ==
    IF f.pc = 0 THEN
        IF TooLarge(f.l.data, CH_CODE_SIZE) THEN Rse("Not enough memory", s)
        ELSE Cal("writebinaryblob", [addr |-> CH_CODE_BASE, data |-> f.l.data], 1, f.l, s)
    ELSE Ret(ZERO, s)

\* Read data blob from memory
I_readbinaryblob(f, r, s) ==
    LET head(l) ==
            IF l.count = 0 THEN Ret(l.blob, s)
            ELSE IF And16(l.addr[2], 3) = 0 /\ l.count >= 4
                 THEN Prm("readword", l.addr, ZERO, 4, l, s)
            ELSE IF And16(l.addr[2], 1) # 0 \/ l.count = 1
                 THEN Prm("readbyte", l.addr, ZERO, 1, l, s)
            ELSE Prm("readhalfword", l.addr, ZERO, 2, l, s)
        adv(n, bs) == [f.l EXCEPT !.addr = PyAdd(@, n), !.count = @ - n, !.blob = @ \o bs]
    IN  CASE f.pc = 0 -> head(f.l)
          [] f.pc = 4 -> head(adv(4, ToBytes4LE(r)))
          [] f.pc = 1 -> IF r[1] # 0 \/ r[2] >= 256
                         THEN Rse("OverflowError: int too big to convert", s)
                         ELSE head(adv(1, <<r[2]>>))
          [] OTHER    -> IF r[1] # 0
                         THEN Rse("OverflowError: int too big to convert", s)
                         ELSE head(adv(2, <<r[2] % 256, r[2] \div 256>>))

\* Verify data in code flash
I_verify_data(f, r, s) ==
    IF f.pc = 0 THEN
        Cal("readbinaryblob",
            [addr |-> CH_CODE_BASE, count |-> Len(f.l.data), blob |-> <<>>], 1, f.l, s)
    ELSE IF r # f.l.data THEN Rse("Verification failed", s)
    ELSE Ret(ZERO, s)

\* Set MCU halt mode
HaltRegs(mode, part) ==
    LET cfgw == W(\h5AA5, \h0400) IN
    CASE mode = 0 -> << Wr(DMSHDWCFGR, cfgw), Wr(DMCFGR, cfgw), Wr(DMCFGR, cfgw),
                        Wr(DMCONTROL, W(\h8000, 1)), Wr(DMCONTROL, W(\h8000, 3)),
                        Wr(DMCONTROL, W(\h8000, 1)) >>
      [] mode = 5 -> << Wr(DMSHDWCFGR, cfgw), Wr(DMCFGR, cfgw), Wr(DMCFGR, cfgw),
                        Wr(DMCONTROL, W(\h8000, 1)), Wr(DMCONTROL, W(\h8000, 1)) >>
      [] mode = 1 -> << Wr(DMCONTROL, W(\h8000, 1)), Wr(DMCONTROL, W(\h8000, 1)),
                        Wr(DMCONTROL, W(\h8000, 3)), Wr(DMCONTROL, W(\h4000, 1)) >>
      [] mode = 2 -> << Wr(DMSHDWCFGR, cfgw), Wr(DMCFGR, cfgw), Wr(DMCFGR, cfgw),
                        Wr(DMCONTROL, W(\h4000, 1)) >>
      [] mode = 3 /\ part = 1 ->
                     << Wr(DMCONTROL, W(\h8000, 1)), Wr(DMCONTROL, W(\h8000, 1)) >>
      [] OTHER    -> << Wr(DMCONTROL, W(\h8000, 3)), Wr(DMCONTROL, W(\h4000, 1)) >>

\* a mode test that lets every value through
KnownMode_any(mode) == TRUE

\* the modes the if/elif chain has a branch for
KnownMode(mode) == mode \in {0, 1, 2, 3, 5}

\* a variant that records the mode before its register writes
I_sethaltmode_early(f, r, s) ==
    LET mode == f.l.mode
        s1 == [s EXCEPT !.haltmode = mode]
        ww(a, v, nx) == Prm("writeword", a, v, nx, f.l, s1)
    IN  CASE f.pc = 0 /\ mode \in {0, 1, 2, 5} -> Prm("regs", ZERO, HaltRegs(mode, 1), 8, f.l, s1)
          [] f.pc = 0 /\ mode = 3 -> Prm("regs", ZERO, HaltRegs(3, 1), 1, f.l, s1)
          [] f.pc = 0 /\ ~KnownMode(mode) -> Rse("Unknown halt mode", s)
          [] f.pc = 1 -> ww(W(\h4002, \h2004), W(\h4567, \h0123), 2)
          [] f.pc = 2 -> ww(W(\h4002, \h2004), W(\hCDEF, \h89AB), 3)
          [] f.pc = 3 -> ww(W(\h4002, \h2028), W(\h4567, \h0123), 4)
          [] f.pc = 4 -> ww(W(\h4002, \h2028), W(\hCDEF, \h89AB), 5)
          [] f.pc = 5 -> ww(W(\h4002, \h200C), W(0, 16384), 6)
          [] f.pc = 6 -> ww(W(\h4002, \h2010), W(0, 128), 7)
          [] f.pc = 7 -> Prm("regs", ZERO, HaltRegs(3, 2), 8, f.l, s1)
          [] OTHER    -> Ret(ZERO, s1)

I_sethaltmode(f, r, s) ==
    LET mode == f.l.mode
        ww(a, v, nx) == Prm("writeword", a, v, nx, f.l, s)
    IN  CASE f.pc = 0 /\ mode \in {0, 1, 2, 5} -> Prm("regs", ZERO, HaltRegs(mode, 1), 8, f.l, s)
          [] f.pc = 0 /\ mode = 3 -> Prm("regs", ZERO, HaltRegs(3, 1), 1, f.l, s)
          [] f.pc = 0 /\ ~KnownMode(mode) -> Rse("Unknown halt mode", s)
          [] f.pc = 1 -> ww(W(\h4002, \h2004), W(\h4567, \h0123), 2)
          [] f.pc = 2 -> ww(W(\h4002, \h2004), W(\hCDEF, \h89AB), 3)
          [] f.pc = 3 -> ww(W(\h4002, \h2028), W(\h4567, \h0123), 4)
          [] f.pc = 4 -> ww(W(\h4002, \h2028), W(\hCDEF, \h89AB), 5)
          [] f.pc = 5 -> ww(W(\h4002, \h200C), W(0, 16384), 6)
          [] f.pc = 6 -> ww(W(\h4002, \h2010), W(0, 128), 7)
          [] f.pc = 7 -> Prm("regs", ZERO, HaltRegs(3, 2), 8, f.l, s)
          [] OTHER    -> Ret(ZERO, [s EXCEPT !.haltmode = mode])

\* one memory access called directly
I_direct(f, r, s) ==
    IF f.pc = 0 THEN Prm(f.l.op, f.l.a, f.l.v, 1, f.l, s) ELSE Ret(r, s)

\* ------------------------------------------------------------------------
\* The calibrator's variant of the tool programs the flash through the
\* programmer's own loader: the blob goes out on the raw endpoint.
\* Its session holds what connect() found: the chip series, the device
\* entry (block size, loader) and the flash size.
\* ------------------------------------------------------------------------

\* a length that is announced without the padding
padlen_raw(data, pagesize) == Len(data)

\* Get padded data length
padlen(data, pagesize) ==
    IF Len(data) % pagesize = 0 THEN Len(data)
    ELSE Len(data) + (pagesize - (Len(data) % pagesize))

\* Pad data and divide into pages
cal_page_data(data, pagesize) ==
    LET padded == IF Len(data) % pagesize > 0
                  THEN data \o FFs(pagesize - (Len(data) % pagesize))
                  ELSE data
    IN  [k \in 1..(Len(padded) \div pagesize) |->
            SubSeq(padded, (k - 1) * pagesize + 1, k * pagesize)]

\* the pages of a loader, which is known by its name and its length: page
\* k holds its bytes from..to and pad bytes 0xFF after them
loader_pages(ld, pagesize) ==
    [k \in 1..((ld.len + pagesize - 1) \div pagesize) |->
        [loader |-> ld.name, from |-> (k - 1) * pagesize,
         to |-> Min(k * pagesize, ld.len),
         pad |-> k * pagesize - Min(k * pagesize, ld.len)]]

\* the option bytes command that removes the read protection, by series
UnlockStream(series) ==
    CASE series = 0                 -> "81060802f7ffffffffffff"
      [] series \in {37, 3}         -> "81060802ffffffffffffff"
      [] series \in {32, 48}        -> "810608023fffffffffffff"
      [] OTHER                      -> ""

\* a variant that streams the payload pages before the loader-end marker
cal_blob_early(s, addr, l) ==
    << <<"C", "81060101">>, <<"UNLK", UnlockStream(s.chipseries)>>,
       <<"CB", addr, padlen(l.data, l.blocksize)>>,
       <<"C", "81020105">> >>
    \o [k \in DOMAIN loader_pages(l.bootloader, 128) |->
            <<"RAW", loader_pages(l.bootloader, 128)[k]>>]
    \o << <<"C", "81020104">> >>
    \o [k \in DOMAIN cal_page_data(l.data, l.blocksize) |->
            <<"RAW", cal_page_data(l.data, l.blocksize)[k]>>]
    \o << <<"C", "81020107">>, <<"RAWREAD">> >>

\* Write data blob to flash (after the alignment check)
cal_blob(s, addr, l) ==
    << <<"C", "81060101">>, <<"UNLK", UnlockStream(s.chipseries)>>,
       <<"CB", addr, padlen(l.data, l.blocksize)>>,
       <<"C", "81020105">> >>
    \o [k \in DOMAIN loader_pages(l.bootloader, 128) |->
            <<"RAW", loader_pages(l.bootloader, 128)[k]>>]
    \o << <<"C", "81020107">>, <<"C", "81020104">> >>
    \o [k \in DOMAIN cal_page_data(l.data, l.blocksize) |->
            <<"RAW", cal_page_data(l.data, l.blocksize)[k]>>]
    \o << <<"RAWREAD">> >>

\* 'Blob is not %d byte aligned' % blocksize, for the block sizes of DEVICES
AlignMsg(blocksize) ==
    CASE blocksize = 64  -> "Blob is not 64 byte aligned"
      [] blocksize = 128 -> "Blob is not 128 byte aligned"
      [] OTHER           -> "Blob is not 256 byte aligned"

\* Write data blob to flash
I_cal_writebinaryblob(f, r, s) ==
    IF f.pc = 0 THEN
        IF And16(f.l.addr[2], f.l.blocksize - 1) # 0
        THEN Rse(AlignMsg(f.l.blocksize), s)
        ELSE Prm("cal_blob", f.l.addr, f.l, 1, f.l, s)
    ELSE Ret(ZERO, s)

\* Write data to code flash
I_cal_flash_data(f, r, s) ==
    IF f.pc = 0 THEN
        IF TooLarge(f.l.data, s.flashsize) THEN Rse("Not enough memory", s)
        ELSE Cal("cal_writebinaryblob",
                 [addr |-> CH_CODE_BASE, blocksize |-> s.device.blocksize,
                  bootloader |-> s.device.loader, data |-> f.l.data], 1, f.l, s)
    ELSE Ret(ZERO, s)

\* the device table entries the calibrator's sessions stand for
LOADER_V003 == [name |-> "LOADER_V003", len |-> 466]
LOADER_V103 == [name |-> "LOADER_V103", len |-> 464]
LOADER_V203 == [name |-> "LOADER_V203", len |-> 416]

CalDevices ==
    {[name |-> "CH32V003J4M6", id |-> 51,   blocksize |-> 64,  loader |-> LOADER_V003],
     [name |-> "CH32V103",     id |-> 9472, blocksize |-> 128, loader |-> LOADER_V103],
     [name |-> "CH32V203C8U6", id |-> 8240, blocksize |-> 256, loader |-> LOADER_V203]}

\* a session of the calibrator's variant as its connect() leaves it
CalSession(d, kb) ==
    [chipseries |-> d.id \div 256, device |-> d, flashsize |-> kb * 1024]

\* Connect programmer to MCU (calibrator): up to three probes, the unbrick
\* command before the second and the third; a probe fails when the reply
\* is short or a refusal, or when the chip id is not in DEVICES.
\* Positions: 0 first probe, 1 probe after the unbrick command, 2 the
\* reply is looked at, 3 the chip data command has been answered.
I_cal_connect(f, r, s) ==
    LET again(l) ==
            IF l.i + 1 < 3
            THEN Prm("unbrick", ZERO, ZERO, 1, [l EXCEPT !.i = @ + 1], s)
            ELSE Rse("Failed to connect to target MCU", s)
        found == {d \in CalDevices : d.id = f.l.id}
    IN  CASE f.pc \in {0, 1} -> Prm("probe", ZERO, ZERO, 2, f.l, s)
          [] f.pc = 2 ->
               IF r[1] = 0 \/ \A d \in CalDevices : d.id # r[2] THEN again(f.l)
               ELSE Prm("chipdata", ZERO, "811101<chipmark>", 3, [f.l EXCEPT !.id = r[2]], s)
          [] OTHER -> Ret(ZERO, CalSession(CHOOSE d \in found : TRUE, 16))

\* Connect programmer to MCU (tiny_arkanoid): up to three probes; a probe
\* fails when the reply is short or a refusal, or when the chip type reads
\* 0xfff
I_ark_connect(f, r, s) ==
    LET again(l) ==
            IF l.i + 1 < 3
            THEN Prm("probe", ZERO, ZERO, 2, [l EXCEPT !.i = @ + 1], s)
            ELSE Rse("Failed to connect to target MCU", s)
    IN  CASE f.pc = 0 -> Prm("probe", ZERO, ZERO, 2, f.l, s)
          [] f.pc = 2 ->
               IF r[1] = 0 \/ r[2] \div 16 = \hFFF THEN again(f.l)
               ELSE Prm("chipdata", ZERO,
                        IF (r[2] \div 256) * 16 = 0 THEN "81110109" ELSE "81110105",
                        3, [f.l EXCEPT !.id = r[2]], s)
          [] OTHER -> Ret(ZERO, [chipseries |-> (f.l.id \div 256) * 16,
                                 chiptype |-> f.l.id \div 16,
                                 flashsize |-> 16 * 1024])

\* ------------------------------------------------------------------------
\* Link commands, session set-up and tear-down
\* ------------------------------------------------------------------------

\* Init programmer
programmer_init == << <<"FIND">>, <<"C", "810d0101">>, <<"LINKE">> >>

\* Init programmer (calibrator)
cal_init ==
    << <<"FINDE">>, <<"CLEAR", "calibrator">>, <<"C", "810d0101">>, <<"LINKE">> >>

\* Init programmer (tiny_arkanoid): reply[5] names one of five programmers
ark_init ==
    << <<"FIND">>, <<"CLEAR", "arkanoid">>, <<"C", "810d0101">>, <<"LINKS">> >>

\* Connect programmer to MCU
connect ==
    << <<"C", "810d0102">>,
       <<"MCU">>,
       Wr(DMCONTROL,      W(\h8000, 1)),
       Wr(DMCONTROL,      W(\h8000, 1)),
       Wr(DMCONTROL,      W(\h8000, 1)),
       Wr(DMABSTRACTCS,   W(0, \h0700)),
       Wr(DMABSTRACTAUTO, ZERO),
       Wr(DMCOMMAND,      W(\h0022, \h1000)),
       <<"WAIT">>,
       <<"C", "81110109">>,
       <<"FLAGS">> >>

\* Unlock MCU
unbrick == << <<"C", "810d010f09">> >>

\* Make reset pin a normal GPIO pin (0=RESET, 1=GPIO)
setnrstasgpio(state) ==
    IF state = 1
    THEN << <<"C", "81060802ffffffffffffff">>, <<"C", "810b0101">> >>
    ELSE << <<"C", "81060802f7ffffffffffff">>, <<"C", "810b0101">> >>

\* Disconnect from MCU
exit == << <<"C", "810d0103">>, <<"C", "810d01ff">> >>

\* the statements of the operation a frame performs in one go
Body(op, s, a, v) ==
    CASE op = "writeword"     -> writeword(s, a, v)
      [] op = "readword"      -> readword(s, a)
      [] op = "writebyte"     -> writebyte(a, v)
      [] op = "readbyte"      -> readbyte(a)
      [] op = "writehalfword" -> writehalfword(a, v)
      [] op = "readhalfword"  -> readhalfword(a)
      [] op = "regs"          -> v
      [] op = "writereg"      -> << Wr(a, v) >>
      [] op = "readreg"       -> << <<"R", a>>, <<"RET">> >>
      [] op = "init"          -> programmer_init
      [] op = "cal_init"      -> cal_init
      [] op = "ark_init"      -> ark_init
      [] op = "connect"       -> connect
      [] op = "unbrick"       -> unbrick
      [] op = "probe"         -> << <<"C", "810d0102">>, <<"PROBE">> >>
      [] op = "chipdata"      -> << <<"C", v>> >>
      [] op = "setnrstasgpio" -> setnrstasgpio(v)
      [] op = "armswitch"     -> << <<"WR", "81ff0141">> >>
      [] op = "rvswitch"      -> << <<"ARM", "81ff0152">> >>
      [] op = "cal_blob"      -> cal_blob(s, a, v)
      [] OTHER                -> exit

Prim(op, w, a, v) == Run(w, Body(op, w.s, a, v))

\* only the reads hand a value back
PrimRet(op, w) ==
    IF op \in {"readword", "readbyte", "readhalfword", "readreg", "probe"} THEN w.ret
    ELSE ZERO

\* ------------------------------------------------------------------------
\* Main function: the frame at the bottom of the stack.  Its positions:
\*   0 argument check and the switch to RISC-V mode, 1 Programmer(),
\*   2 connect, 3..13 the actions, 14/15 the ARM mode switch, 16 the exit
\*   of the normal path, 20/21 the except clause of the action blocks.
\* ------------------------------------------------------------------------
I_main(f, r, s) ==
    LET a       == f.l.args
        needmcu == a.erase \/ a.flash \/ a.pingpio \/ a.pinreset \/ a.unlock
        any     == needmcu \/ a.armmode \/ a.rvmode
        pr(op, v, nx) == Prm(op, ZERO, v, nx, f.l, s)
        halt(nx) == Cal("sethaltmode", [mode |-> 0], nx, f.l, s)
        From(k) ==
            IF k <= 3 /\ a.unlock THEN pr("unbrick", ZERO, 4)
            ELSE IF k <= 4 /\ a.erase THEN halt(5)
            ELSE IF k <= 6 /\ a.flash THEN halt(7)
            ELSE IF k <= 10 /\ a.pingpio THEN halt(11)
            ELSE IF k <= 12 /\ a.pinreset THEN halt(13)
            ELSE IF a.armmode THEN pr("exit", ZERO, 15)
            ELSE pr("exit", ZERO, 17)
    IN  CASE f.pc = 0  -> IF ~any THEN Ret(W(0, 0), s)
                          ELSE IF a.rvmode THEN pr("rvswitch", ZERO, 1)
                          ELSE pr("init", ZERO, 2)
          [] f.pc = 1  -> pr("init", ZERO, 2)
          [] f.pc = 2  -> IF needmcu THEN pr("connect", ZERO, 3) ELSE From(3)
          [] f.pc = 3  -> From(3)
          [] f.pc = 4  -> From(4)
          [] f.pc = 5  -> Cal("erasechip", [none |-> 0], 6, f.l, s)
          [] f.pc = 6  -> From(6)
          [] f.pc = 7  -> IF ~a.fileok THEN Rse("No such file or directory", s)
                          ELSE Cal("flash_data", [data |-> a.data], 8, f.l, s)
          [] f.pc = 8  -> Cal("verify_data", [data |-> a.data], 9, f.l, s)
          [] f.pc = 9  -> From(10)
          [] f.pc = 11 -> pr("setnrstasgpio", 1, 12)
          [] f.pc = 12 -> From(12)
          [] f.pc = 13 -> pr("setnrstasgpio", 0, 14)
          [] f.pc = 14 -> From(14)
          [] f.pc = 15 -> pr("armswitch", ZERO, 16)
          [] f.pc = 16 -> Ret(W(0, 0), s)
          [] f.pc = 17 -> Ret(W(0, 0), s)
          [] f.pc = 20 -> pr("exit", ZERO, 21)
          [] OTHER     -> Ret(W(0, 1), s)

\* the except clause in force at a position of the main function: "skip"
\* (report and go on), "exit1" (report and sys.exit(1)), "h" (report,
\* isp.exit() and sys.exit(1)) or "" (none: the exception ends the process)
TryOf(pc) ==
    CASE pc = 0 -> "skip"
      [] pc = 1 -> "exit1"
      [] pc \in {20, 21} -> ""
      [] OTHER -> "h"

Instr(f, r, s) ==
    CASE f.fn = "direct"          -> I_direct(f, r, s)
      [] f.fn = "unlockflash"     -> I_unlockflash(f, r, s)
      [] f.fn = "waitforflash"    -> I_waitforflash(f, r, s)
      [] f.fn = "erasepage"       -> I_erasepage(f, r, s)
      [] f.fn = "erasechip"       -> I_erasechip(f, r, s)
      [] f.fn = "writebinaryblob" -> I_writebinaryblob(f, r, s)
      [] f.fn = "flash_data"      -> I_flash_data(f, r, s)
      [] f.fn = "readbinaryblob"  -> I_readbinaryblob(f, r, s)
      [] f.fn = "verify_data"     -> I_verify_data(f, r, s)
      [] f.fn = "sethaltmode"     -> I_sethaltmode(f, r, s)
      [] f.fn = "cal_writebinaryblob" -> I_cal_writebinaryblob(f, r, s)
      [] f.fn = "cal_flash_data"  -> I_cal_flash_data(f, r, s)
      [] f.fn = "cal_connect"     -> I_cal_connect(f, r, s)
      [] f.fn = "ark_connect"     -> I_ark_connect(f, r, s)
      [] OTHER                    -> I_main(f, r, s)

\* ------------------------------------------------------------------------
\* The machine: one step of the frame on top of the stack
\* ------------------------------------------------------------------------
Frame(fn, l) == [fn |-> fn, pc |-> 0, l |-> l]
Top == stk[Len(stk)]
SetTop(f) == [stk EXCEPT ![Len(stk)] = f]
Pop == SubSeq(stk, 1, Len(stk) - 1)

\* the streams of a log that went out on the command endpoint
RECURSIVE SentOf(_)
SentOf(log) ==
    IF log = <<>> THEN <<>>
    ELSE IF log[1][1] = "C" /\ log[1][3] = W(0, 1) THEN <<log[1][2]>> \o SentOf(Tail(log))
    ELSE SentOf(Tail(log))

NoOp == [op |-> "none", l |-> [none |-> 0], err |-> OK, ret |-> ZERO, calls |-> <<>>,
         s0 |-> NoSession, s1 |-> NoSession, ev |-> <<>>, nstatr |-> 0]

\* the operation in progress ends in session s1: with a result, or with
\* exception e
Finish(e, rv, s1, d2, calls) ==
    /\ last' = [op |-> cur.op, l |-> cur.l, err |-> e, ret |-> rv, calls |-> calls,
                s0 |-> cur.s0, s1 |-> s1, ev |-> d2.ev, nstatr |-> d2.nstatr]
    /\ prev' = last
    /\ stk' = <<>>
    /\ ret' = ZERO
    /\ cur' = [cur EXCEPT !.calls = <<>>]

\* an exception e leaves the frame on top: it ends the operation, or the
\* except clause of the main function takes it
Raise(e, s1, d2, calls, snt) ==
    LET h == IF stk[1].fn = "main" THEN TryOf(stk[1].pc) ELSE "none"
        o == [out EXCEPT !.sent = @ \o snt, !.errs = Append(@, e)]
    IN  CASE h = "none" ->
               /\ Finish(e, ZERO, s1, d2, calls)
               /\ out' = out
          [] h \in {"h", "skip"} ->
               /\ stk' = << [stk[1] EXCEPT !.pc = IF h = "h" THEN 20 ELSE 1] >>
               /\ ret' = ZERO
               /\ cur' = [cur EXCEPT !.calls = calls]
               /\ out' = o
               /\ UNCHANGED <<last, prev>>
          [] OTHER ->
               /\ Finish(e, ZERO, s1, d2, calls)
               /\ out' = [o EXCEPT !.status = IF h = "exit1" THEN "exit1" ELSE "traceback"]

StepWith(fl) ==
    LET f == Top
        prim(i, w) ==
            LET rec == [op |-> i.op, a |-> i.a, v |-> i.v, log |-> w.log, err |-> w.err,
                        ret |-> PrimRet(i.op, w), rep |-> w.rep]
            IN  /\ isp' = w.s
                /\ dev' = w.d
                /\ IF w.err = OK
                   THEN /\ stk' = SetTop([f EXCEPT !.pc = i.nx, !.l = i.l])
                        /\ ret' = PrimRet(i.op, w)
                        /\ cur' = [cur EXCEPT !.calls = Append(@, rec)]
                        /\ out' = [out EXCEPT !.sent = @ \o SentOf(w.log),
                                              !.linked = @ \/ i.op = "init"]
                        /\ UNCHANGED <<last, prev>>
                   ELSE Raise(w.err, w.s, w.d, Append(cur.calls, rec), SentOf(w.log))
        do(i) ==
            CASE i.k = "prim" -> prim(i, Prim(i.op, World(i.s, dev, fl), i.a, i.v))
              [] i.k = "call" ->
                   /\ stk' = Append(SetTop([f EXCEPT !.pc = i.nx, !.l = i.l]),
                                    Frame(i.fn, i.l0))
                   /\ isp' = i.s
                   /\ ret' = ZERO
                   /\ UNCHANGED <<dev, cur, last, prev, out>>
              [] i.k = "ret" ->
                   /\ isp' = i.s
                   /\ dev' = dev
                   /\ IF Len(stk) > 1
                      THEN /\ stk' = Pop
                           /\ ret' = i.v
                           /\ UNCHANGED <<cur, last, prev, out>>
                      ELSE /\ Finish(OK, i.v, i.s, dev, cur.calls)
                           /\ out' = IF f.fn = "main"
                                     THEN [out EXCEPT !.status = IF i.v = W(0, 0)
                                                                 THEN "exit0" ELSE "exit1"]
                                     ELSE out
              [] OTHER ->
                   /\ isp' = i.s
                   /\ dev' = dev
                   /\ Raise(i.msg, i.s, dev, cur.calls, <<>>)
    IN  do(Instr(f, ret, isp))

\* transport faults: transaction number at of the step fails; cfg.faults is
\* the number of faults the run may still see
MaxFaultAt == 3
Garbage == W(\hFFFF, \hFFFF)

\* replies that are not the answer to the access: <<length, what is added to
\* the address at reply[3]>>; the third has the right form and a wrong value
BadReplies == {<<4, 0>>, <<9, 1>>, <<9, 0>>, <<10, 0>>}
Faults ==
    {NoFault} \cup
    (IF cfg.faults > 0
     THEN {[at |-> k, kind |-> "timeout", exec |-> e, val |-> Garbage,
            len |-> 0, eoff |-> 0] : k \in 1..MaxFaultAt, e \in BOOLEAN}
          \cup
          {[at |-> k, kind |-> "badreply", exec |-> e, val |-> Garbage,
            len |-> r[1], eoff |-> r[2]] :
              k \in 1..MaxFaultAt, e \in BOOLEAN, r \in BadReplies}
     ELSE {})

Step ==
    /\ stk # <<>>
    /\ \E fl \in Faults :
          /\ StepWith(fl)
          /\ cfg' = [cfg EXCEPT !.faults = IF fl = NoFault THEN @ ELSE @ - 1]
    /\ UNCHANGED nops

\* the parameters x of a call of method fn, by name
Locals(fn, x) ==
    CASE fn = "direct"              -> [op |-> x[1], a |-> x[2], v |-> x[3]]
      [] fn = "sethaltmode"         -> [mode |-> x[1]]
      [] fn = "erasepage"           -> [base |-> x[1]]
      [] fn = "readbinaryblob"      -> [addr |-> x[1], count |-> x[2], blob |-> <<>>]
      [] fn \in {"cal_connect", "ark_connect"} -> [i |-> 0, id |-> 0]
      [] fn = "writebinaryblob"     -> [addr |-> x[1], data |-> x[2]]
      [] fn = "cal_writebinaryblob" -> [addr |-> x[1], blocksize |-> x[2],
                                        bootloader |-> x[3], data |-> x[4]]
      [] fn \in {"flash_data", "verify_data", "cal_flash_data"} -> [data |-> x[1]]
      [] OTHER                      -> [none |-> 0]

\* a caller starts method fn with parameters x on the idle session
Start(fn, x) ==
    /\ stk = <<>>
    /\ nops < cfg.maxops
    /\ out.status = "api"
    /\ stk' = <<Frame(fn, Locals(fn, x))>>
    /\ cur' = [op |-> fn, l |-> Locals(fn, x), calls |-> <<>>, s0 |-> isp]
    /\ dev' = [dev EXCEPT !.ev = <<>>, !.nstatr = 0, !.nexec = 0, !.ctl = <<>>]
    /\ nops' = nops + 1
    /\ ret' = ZERO
    /\ UNCHANGED <<isp, last, prev, out, cfg>>

\* ------------------------------------------------------------------------
\* Devices and initial states
\* ------------------------------------------------------------------------
Nominal ==
    [busy |-> 0, prot |-> 0, unlockable |-> TRUE, locked |-> TRUE, opdelay |-> 0,
     link |-> "linkE", mcu |-> "v003", armlink |-> FALSE, rdprot |-> FALSE,
     rawreply |-> <<65, 1, 1, 4>>, probe |-> <<>>, stale |-> <<0, 0>>]

\* the device before the tool has touched it
PowerOn(scn) ==
    [data0 |-> ZERO, data1 |-> ZERO, auto |-> ZERO, cmd |-> ZERO,
     pb |-> <<ZERO, ZERO, ZERO>>, x |-> [r \in 1..15 |-> ZERO],
     mem |-> [a \in {} |-> ZERO], cmderr |-> 0, absbusy |-> 0,
     lock |-> scn.locked, flock |-> scn.locked,
     key |-> [k \in {"KEYR", "OBKEYR", "MODEKEYR", "BOOTKEYR"} |-> 0],
     ctlr |-> ZERO, faddr |-> ZERO, fbusy |-> IF scn.busy = -1 THEN -1 ELSE 0,
     ev |-> <<>>, nstatr |-> 0, nexec |-> 0, nhart |-> 0, nprobe |-> 0, ctl |-> <<>>,
     epin |-> scn.stale[1], epraw |-> scn.stale[2],
     scn |-> scn]

\* a session as connect() leaves it
Connected(scn) == Prim("connect", World(NoSession, PowerOn(scn), NoFault), ZERO, ZERO)

Idle(faults, maxops) ==
    /\ stk = <<>>
    /\ ret = ZERO
    /\ cur = [op |-> "none", l |-> [none |-> 0], calls |-> <<>>, s0 |-> NoSession]
    /\ last = NoOp
    /\ prev = NoOp
    /\ nops = 0
    /\ out = [status |-> "api", sent |-> <<>>, errs |-> <<>>, linked |-> FALSE]
    /\ cfg = [faults |-> faults, maxops |-> maxops, variant |-> "lander"]

InitApi(scns, faults, maxops) ==
    /\ \E scn \in scns :
          LET start(w) == /\ isp = w.s
                          /\ dev = [w.d EXCEPT !.ctl = <<>>]
          IN  start(Connected(scn))
    /\ Idle(faults, maxops)

\* ------------------------------------------------------------------------
\* Spec: a caller performs word, halfword and byte accesses and halt-mode
\* changes in any order on a connected session.
\* ------------------------------------------------------------------------
MaxOps == 3

RAM0 == W(\h2000, \h0000)
FLS0 == W(\h0800, \h0000)
Addrs == {RAM0, PyAdd(RAM0, 4), PyAdd(RAM0, 16), FLS0, PyAdd(FLS0, 4), PyAdd(FLS0, 16)}
Vals == {W(\h1234, \h5678), W(\hCDEF, \h89AB)}

CallWrite ==
    \E a \in Addrs, v \in Vals : Start("direct", <<"writeword", a, v>>)

CallRead ==
    \E a \in Addrs \cup {FLASH_STATR, FLASH_CTLR} :
        Start("direct", <<"readword", a, ZERO>>)

CallSub ==
    \E op \in {"readbyte", "readhalfword", "writebyte", "writehalfword"},
       a \in {PyAdd(RAM0, 4), PyAdd(RAM0, 6)} :
        Start("direct", <<op, a, W(0, \h00AB)>>)

CallHalt ==
    \E m \in {0, 1, 2, 3, 4, 5} : Start("sethaltmode", <<m>>)

Init == InitApi({Nominal, [Nominal EXCEPT !.opdelay = 1]}, 0, MaxOps)

Next == CallWrite \/ CallRead \/ CallSub \/ CallHalt \/ Step

Spec == Init /\ [][Next]_vars

\* ------------------------------------------------------------------------
\* FlashSpec: a caller unlocks, erases, programs and verifies the code
\* flash, against devices whose flash controller is ready at once, busy
\* for a while, busy for ever, write-protected, or deaf to the keys; or it
\* programs a blob with the calibrator's variant of the tool.
\* ------------------------------------------------------------------------
FlashOps == 2

\* the bytes of a binary file of n bytes whose last byte is tail
Image(n, tail) == [i \in 1..n |-> IF i = n THEN tail ELSE (i * 37) % 128]

Images ==
    {<<>>, Image(5, 5), Image(5, 128), Image(6, 7), Image(7, 200), Image(64, 1),
     Image(100, 100)}

\* one byte more than the code flash holds
TooBig == FFs(CH_CODE_SIZE + 1)

FlashDevs ==
    {Nominal,
     [Nominal EXCEPT !.busy = 2],
     [Nominal EXCEPT !.busy = -1],
     [Nominal EXCEPT !.prot = 1],
     [Nominal EXCEPT !.unlockable = FALSE],
     [Nominal EXCEPT !.locked = FALSE]}

CallUnlock == cfg.variant = "lander" /\ Start("unlockflash", <<>>)

CallErasePage ==
    /\ cfg.variant = "lander"
    /\ \E b \in {FLS0, PyAdd(FLS0, 32), PyAdd(FLS0, 64)} : Start("erasepage", <<b>>)

CallEraseChip == cfg.variant = "lander" /\ Start("erasechip", <<>>)

CallBlob ==
    /\ cfg.variant = "lander"
    /\ \E a \in {FLS0, PyAdd(FLS0, 4), PyAdd(FLS0, 32), PyAdd(FLS0, 64)},
          data \in {<<>>, Image(5, 128), Image(64, 1)} :
          Start("writebinaryblob", <<a, data>>)

CallFlash ==
    /\ cfg.variant = "lander"
    /\ \E data \in Images \cup {TooBig} : Start("flash_data", <<data>>)

\* an image that agrees with erased flash in its first word only
Blank4 == FFs(4) \o <<1, 1, 1, 1>>

CallVerify ==
    /\ cfg.variant = "lander"
    /\ \E data \in Images \cup {pad_data(x, 64) : x \in Images} \cup {Blank4} :
          Start("verify_data", <<data>>)

CalBlob ==
    /\ cfg.variant = "calibrator"
    /\ \E a \in {FLS0, PyAdd(FLS0, 4), PyAdd(FLS0, 64), PyAdd(FLS0, 128), PyAdd(FLS0, 256)},
          data \in {<<>>, Image(5, 128), Image(100, 100)} :
          Start("cal_writebinaryblob",
                <<a, isp.device.blocksize, isp.device.loader, data>>)

CalFlash ==
    /\ cfg.variant = "calibrator"
    /\ \E data \in {<<>>, Image(5, 128), Image(100, 100), TooBig} :
          Start("cal_flash_data", <<data>>)

FlashInit ==
    \/ InitApi(FlashDevs, 0, FlashOps)
    \/ /\ \E d \in CalDevices, rp \in BOOLEAN, ok \in BOOLEAN :
             /\ isp = CalSession(d, 16)
             /\ dev = PowerOn([Nominal EXCEPT !.rdprot = rp,
                                 !.rawreply = IF ok THEN @ ELSE <<65, 1, 1, 2>>])
       /\ stk = <<>>
       /\ ret = ZERO
       /\ cur = [op |-> "none", l |-> [none |-> 0], calls |-> <<>>, s0 |-> NoSession]
       /\ last = NoOp
       /\ prev = NoOp
       /\ nops = 0
       /\ out = [status |-> "api", sent |-> <<>>, errs |-> <<>>, linked |-> FALSE]
       /\ cfg = [faults |-> 0, maxops |-> FlashOps, variant |-> "calibrator"]

FlashNext ==
    \/ CallUnlock \/ CallErasePage \/ CallEraseChip \/ CallBlob \/ CallFlash
    \/ CallVerify \/ CalBlob \/ CalFlash \/ Step

FlashSpec == FlashInit /\ [][FlashNext]_vars

\* ------------------------------------------------------------------------
\* MainSpec: one run of the command line tool, from its arguments to the
\* end of the process, with a link that may be absent, not a WCH-LinkE, or
\* without (the right) MCU behind it, and a transport that may fail on any
\* of the first MaxFaultAt transactions of each step.
\* ------------------------------------------------------------------------
MaxFaults == 1

NoArgs ==
    [armmode |-> FALSE, rvmode |-> FALSE, unlock |-> FALSE, erase |-> FALSE,
     flash |-> FALSE, pingpio |-> FALSE, pinreset |-> FALSE, fileok |-> TRUE,
     data |-> <<>>]

ArgSets ==
    {NoArgs,
     [NoArgs EXCEPT !.rvmode = TRUE],
     [NoArgs EXCEPT !.armmode = TRUE],
     [NoArgs EXCEPT !.unlock = TRUE],
     [NoArgs EXCEPT !.erase = TRUE],
     [NoArgs EXCEPT !.flash = TRUE, !.data = Image(5, 5)],
     [NoArgs EXCEPT !.flash = TRUE, !.fileok = FALSE],
     [NoArgs EXCEPT !.pingpio = TRUE],
     [NoArgs EXCEPT !.pinreset = TRUE, !.rvmode = TRUE],
     [NoArgs EXCEPT !.unlock = TRUE, !.erase = TRUE, !.pingpio = TRUE, !.armmode = TRUE]}

MainDevs ==
    {Nominal,
     [Nominal EXCEPT !.link = "none"],
     [Nominal EXCEPT !.link = "other"],
     [Nominal EXCEPT !.mcu = "none"],
     [Nominal EXCEPT !.mcu = "other"],
     [Nominal EXCEPT !.armlink = TRUE],
     [Nominal EXCEPT !.busy = -1]}

MainInit ==
    /\ \E a \in ArgSets : stk = <<Frame("main", [args |-> a])>>
    /\ \E scn \in MainDevs : dev = PowerOn(scn)
    /\ isp = NoSession
    /\ ret = ZERO
    /\ cur = [op |-> "main", l |-> [none |-> 0], calls |-> <<>>, s0 |-> NoSession]
    /\ last = NoOp
    /\ prev = NoOp
    /\ nops = 0
    /\ out = [status |-> "run", sent |-> <<>>, errs |-> <<>>, linked |-> FALSE]
    /\ cfg = [faults |-> MaxFaults, maxops |-> 0, variant |-> "lander"]

MainNext == Step

MainSpec == MainInit /\ [][MainNext]_vars

\* ------------------------------------------------------------------------
\* Properties.  last and prev are the two operations that finished last:
\* what was called (op, l), how it ended (err, ret), the accesses it made
\* with their register transactions (calls), the session before and after
\* (s0, s1) and what the device saw (ev).
\* ------------------------------------------------------------------------
IsWrite(o) == o.op = "direct" /\ o.l.op = "writeword"
IsRead(o)  == o.op = "direct" /\ o.l.op = "readword"

\* the register transactions of a word access
LogOf(o) == o.calls[1].log

Writes(log, regs) ==
    Cardinality({i \in DOMAIN log : log[i][1] = "W" /\ log[i][2] \in regs})

Reads(log, regs) ==
    Cardinality({i \in DOMAIN log : log[i][1] = "R" /\ log[i][2] \in regs})

\* a word write that succeeded is followed by a word write of the same
\* class that succeeded
WritePair ==
    /\ IsWrite(prev) /\ prev.err = OK
    /\ IsWrite(last) /\ last.err = OK
    /\ IsFlash(last.l.a) = IsFlash(prev.l.a)

\* C4: a word written and then read at the same address reads back as
\* written, whatever the access sequence cache held before the write and
\* whether or not the address is the cached next address.
C4_RoundTrip ==
    (/\ IsWrite(prev) /\ prev.err = OK
     /\ IsRead(last) /\ last.err = OK
     /\ last.l.a = prev.l.a)
    => last.ret = prev.l.v

\* a round trip that started in a read sequence, at another address than
\* the cached next one
C4_Witness ==
    /\ IsWrite(prev) /\ prev.err = OK
    /\ IsRead(last) /\ last.err = OK
    /\ last.l.a = prev.l.a
    /\ prev.s0.statetag = "RDSQ"
    /\ prev.l.a # prev.s0.stateval
    /\ last.ret = prev.l.v

\* C5: in a run of word writes of one class to addresses increasing by 4,
\* only the first call writes the program buffer and sets up the hart-info
\* offsets: a call that follows another one of the run does neither.
C5_SetupOnlyFirstCall ==
    (WritePair /\ last.l.a = PyAdd(prev.l.a, 4))
    => /\ Writes(LogOf(last), {DMPROGBUF0, DMPROGBUF1, DMPROGBUF2}) = 0
       /\ Reads(LogOf(last), {DMHARTINFO}) = 0

\* the address register is written once, after auto-execution is switched
\* off and before it is switched on again
OneReload(log) ==
    /\ Writes(log, {DMDATA1}) = 1
    /\ \E i \in DOMAIN log :
          /\ i > 1 /\ i < Len(log)
          /\ log[i] = <<"W", DMDATA1, log[i][3]>>
          /\ log[i - 1] = <<"W", DMABSTRACTAUTO, ZERO>>
          /\ log[i + 1] = <<"W", DMABSTRACTAUTO, W(0, 1)>>

\* C6: in a run of word writes of one class, a write to another address
\* than the cached next one reloads the address register exactly once, with
\* auto-execution disabled around the reload, and the contiguous write
\* after a write of the run reloads nothing.
C6_OneResetupPerGap ==
    /\ (WritePair /\ last.l.a # PyAdd(prev.l.a, 4))
       => /\ OneReload(LogOf(last))
          /\ Writes(LogOf(last), {DMPROGBUF0, DMPROGBUF1, DMPROGBUF2}) = 0
    /\ (WritePair /\ last.l.a = PyAdd(prev.l.a, 4))
       => /\ Writes(LogOf(last), {DMDATA1, DMABSTRACTAUTO}) = 0
          /\ Writes(LogOf(last), {DMPROGBUF0, DMPROGBUF1, DMPROGBUF2}) = 0

\* the accesses of operation o that are word reads at address a
Polls(o, a) ==
    Cardinality({i \in DOMAIN o.calls : o.calls[i].op = "readword" /\ o.calls[i].a = a})

\* the key register writes the device saw during operation o
KeyWrites(o) == Cardinality({i \in DOMAIN o.ev : o.ev[i][1] = "key"})

\* C1: a blob at an address that is no multiple of the block size is
\* refused with the alignment error before any transport call is issued,
\* by the word-access variant (blocks of 64 bytes) and by the loader
\* variant (the block size of the device entry).
C1_AlignmentFirst ==
    /\ (last.op = "writebinaryblob" /\ last.l.addr[2] % 64 # 0)
       => /\ last.err = "Blob is not 64-byte aligned"
          /\ last.calls = <<>>
          /\ last.ev = <<>>
    /\ (last.op = "cal_writebinaryblob" /\ last.l.addr[2] % last.l.blocksize # 0)
       => /\ last.err \in {"Blob is not 64 byte aligned", "Blob is not 128 byte aligned",
                         "Blob is not 256 byte aligned"}
          /\ last.calls = <<>>
    /\ (cur.op \in {"writebinaryblob", "cal_writebinaryblob"} /\ stk # <<>>
        /\ cur.l.addr[2] % (IF cur.op = "writebinaryblob" THEN 64 ELSE cur.l.blocksize) # 0)
       => cur.calls = <<>>

\* a blob at the code base plus 32 was refused
C1_Witness ==
    /\ last.op = "writebinaryblob"
    /\ last.l.addr = PyAdd(CH_CODE_BASE, 32)
    /\ last.l.data # <<>>
    /\ last.err = "Blob is not 64-byte aligned"
    /\ last.calls = <<>>

\* the flash size a flash_data call checks against
CapacityOf(o) == IF o.op = "flash_data" THEN CH_CODE_SIZE ELSE o.s0.flashsize

\* C2: flash_data with more data than the flash holds ends with the
\* capacity error, has issued no transport call, and leaves the session as
\* it was.
C2_CapacityFirst ==
    /\ (last.op \in {"flash_data", "cal_flash_data"} /\ Len(last.l.data) > CapacityOf(last))
       => /\ last.err = "Not enough memory"
          /\ last.calls = <<>>
          /\ last.ev = <<>>
          /\ last.s1 = last.s0
    /\ (cur.op \in {"flash_data", "cal_flash_data"} /\ stk # <<>>
        /\ Len(cur.l.data) > CapacityOf(cur))
       => /\ cur.calls = <<>>
          /\ isp = cur.s0

\* flash_data refused an image of one byte more than the code flash
C2_Witness ==
    /\ last.op = "flash_data"
    /\ Len(last.l.data) = CH_CODE_SIZE + 1
    /\ last.err = "Not enough memory"
    /\ last.calls = <<>>
    /\ last.s1 = last.s0

\* C7: unlockflash called again right after an unlockflash that succeeded
\* writes no key register and leaves flashunlocked set; the keys (three
\* pairs) went out in the first call only, if the device was locked.
C7_UnlockOnce ==
    (prev.op = "unlockflash" /\ prev.err = OK /\ last.op = "unlockflash")
    => /\ last.err = OK
       /\ KeyWrites(last) = 0
       /\ \A i \in DOMAIN last.calls : last.calls[i].op # "writeword"
       /\ last.s1.flashunlocked = 1
       /\ KeyWrites(prev) = IF prev.s0.flashunlocked = 0 /\ dev.scn.locked THEN 6 ELSE 0

\* two calls in a row on a locked device: six key writes, then none
C7_Witness ==
    /\ prev.op = "unlockflash" /\ prev.err = OK
    /\ last.op = "unlockflash" /\ last.err = OK
    /\ KeyWrites(prev) = 6
    /\ KeyWrites(last) = 0
    /\ last.s1.flashunlocked = 1

\* byte n (from 1) of an image of L bytes padded with 0xFF
PaddedByte(data, n) == IF n <= Len(data) THEN data[n] ELSE 255

\* the word at byte offset x of the padded image, little-endian
PaddedWord(data, x) ==
    W(PaddedByte(data, x + 3) + 256 * PaddedByte(data, x + 4),
      PaddedByte(data, x + 1) + 256 * PaddedByte(data, x + 2))

\* what the device sees of one erase+program cycle of the page at offset x
CycleAt(base, data, x) ==
    << <<"addr", PyAdd(base, x)>>, <<"ctlr", W(2, 64)>> >>
    \o [i \in 1..16 |-> <<"word", PyAdd(base, x + 4 * (i - 1)),
                          PaddedWord(data, x + 4 * (i - 1))>>]
    \o << <<"addr", PyAdd(base, x)>>, <<"ctlr", W(1, 64)>> >>

RECURSIVE CyclesFrom(_, _, _)
CyclesFrom(base, data, x) ==
    IF x >= Len(data) THEN <<>>
    ELSE CycleAt(base, data, x) \o CyclesFrom(base, data, x + 64)

\* the erase starts, program starts, flash address loads and word stores
\* among the device events
CycleEvents(ev) ==
    LET keep(e) == \/ e[1] \in {"addr", "word"}
                   \/ e[1] = "ctlr" /\ e[2] \in {W(2, 64), W(1, 64)}
    IN  SelectSeq(ev, keep)

EraseStarts(ev) == Cardinality({i \in DOMAIN ev : ev[i] = <<"ctlr", W(2, 64)>>})

\* C8: programming L bytes at the code base makes ceil(L/64) erase+program
\* cycles, one per page, at the page bases in increasing order: each is the
\* page erase at its base, the sixteen words of the page, and the page
\* program at its base; the words after the data are 0xFFFFFFFF bytes.
C8_PageCycles ==
    /\ (last.op = "flash_data" /\ last.err = OK)
       => CycleEvents(last.ev) = CyclesFrom(CH_CODE_BASE, last.l.data, 0)
    /\ (last.op = "writebinaryblob" /\ last.err = OK)
       => CycleEvents(last.ev) = CyclesFrom(last.l.addr, last.l.data, 0)

\* 100 bytes were programmed in two cycles
C8_Witness ==
    /\ last.op = "flash_data" /\ last.err = OK
    /\ Len(last.l.data) = 100
    /\ EraseStarts(last.ev) = 2
    /\ CycleEvents(last.ev) = CyclesFrom(CH_CODE_BASE, last.l.data, 0)

\* C9: after flash_data(data) succeeded, verify_data of the padded image
\* and verify_data of the data itself succeed.
C9_VerifyAfterFlash ==
    (/\ prev.op = "flash_data" /\ prev.err = OK
     /\ last.op = "verify_data"
     /\ last.l.data \in {prev.l.data, pad_data(prev.l.data, 64)})
    => last.err = OK

\* C10: on a device whose flash stays busy, erasepage ends with the flash
\* timeout after exactly 100 word reads of the status register, each of
\* them one read of the data register.
C10_HundredPolls ==
    (last.op = "erasepage" /\ dev.scn.busy = -1)
    => /\ last.err = "Timout waiting for FLASH"
       /\ Polls(last, FLASH_STATR) = 100
       /\ \A i \in DOMAIN last.calls :
             (last.calls[i].op = "readword" /\ last.calls[i].a = FLASH_STATR)
             => Reads(last.calls[i].log, {DMDATA0}) = 1

\* an erasepage timed out after 100 polls
C10_Witness ==
    /\ last.op = "erasepage"
    /\ dev.scn.busy = -1
    /\ last.err = "Timout waiting for FLASH"
    /\ Polls(last, FLASH_STATR) = 100

\* the process has ended
Exited == out.status \in {"exit0", "exit1", "traceback"}

\* both disconnect commands went out, the second after the first
Disconnected(sent) ==
    \E i, j \in DOMAIN sent :
        i < j /\ sent[i] = "810d0103" /\ sent[j] = "810d01ff"

\* C3: once Programmer() has succeeded, the process does not end before
\* both disconnect commands were sent, in order, whatever fails on the way.
C3_DisconnectOnEveryExit ==
    (Exited /\ out.linked) => Disconnected(out.sent)

\* C11: when erasepage has ended with the flash timeout, the state tag of
\* the session is the invalidated one ('XXXX').
C11_InvalidatedAfterTimeout ==
    (last.op = "erasepage" /\ last.err = "Timout waiting for FLASH")
        => last.s1.statetag = "XXXX"

\* byte k (from 0) of the code flash, as the device holds it
FlashByte(d, k) ==
    LET a == PyAdd(CH_CODE_BASE, k - (k % 4))
    IN  ByteOf(IF a \in DOMAIN d.mem THEN d.mem[a] ELSE DefaultWord(a), k % 4)

\* the offsets at which the code flash differs from data
Diffs(d, data) == {k \in 0..(Len(data) - 1) : FlashByte(d, k) # data[k + 1]}

\* the first of them
FirstDiff(d, data) == CHOOSE k \in Diffs(d, data) : \A j \in Diffs(d, data) : k <= j

\* C12: verify_data fails with the verification error when a byte of the
\* code flash differs from data and succeeds when none does; the errors of
\* two failed verifications whose first differing offsets are different
\* are different (the error tells the offset).
C12_VerifyMismatch ==
    (stk = <<>> /\ last.op = "verify_data")
        => /\ Diffs(dev, last.l.data) # {} => last.err = "Verification failed"
           /\ Diffs(dev, last.l.data) = {} => last.err = OK
           /\ (/\ prev.op = "verify_data"
               /\ Diffs(dev, prev.l.data) # {}
               /\ Diffs(dev, last.l.data) # {}
               /\ FirstDiff(dev, prev.l.data) # FirstDiff(dev, last.l.data))
              => prev.err # last.err

\* ------------------------------------------------------------------------
\* RegSpec: a caller accesses debug module registers directly, with either
\* variant of the tool, and reads words with the tiny_lander variant, over
\* a link whose replies may be missing or malformed.
\* ------------------------------------------------------------------------
RegOps == 3
RegFaults == 2

Regs == {DMDATA0, DMCONTROL, DMABSTRACTCS}

CallWriteReg ==
    \E r \in Regs, v \in Vals : Start("direct", <<"writereg", r, v>>)

CallReadReg ==
    \E r \in Regs : Start("direct", <<"readreg", r, ZERO>>)

CallReadWord ==
    /\ cfg.variant = "lander"
    /\ \E a \in {RAM0, FLASH_STATR} : Start("direct", <<"readword", a, ZERO>>)

RegInit ==
    \/ InitApi({Nominal}, RegFaults, RegOps)
    \/ /\ \E d \in CalDevices : isp = CalSession(d, 16)
       /\ dev = PowerOn(Nominal)
       /\ stk = <<>>
       /\ ret = ZERO
       /\ cur = [op |-> "none", l |-> [none |-> 0], calls |-> <<>>, s0 |-> NoSession]
       /\ last = NoOp
       /\ prev = NoOp
       /\ nops = 0
       /\ out = [status |-> "api", sent |-> <<>>, errs |-> <<>>, linked |-> FALSE]
       /\ cfg = [faults |-> RegFaults, maxops |-> RegOps, variant |-> "calibrator"]

RegNext == CallWriteReg \/ CallReadReg \/ CallReadWord \/ Step

RegSpec == RegInit /\ [][RegNext]_vars

\* a reply <<kind, address, length, reply[3]>> that arrived and is not one
\* of 9 bytes with the address at index 3
Mismatched(y) == y[3] > 0 /\ (y[3] # 9 \/ y[4] # y[2])

\* in call c, a register write ended the call with the write error if its
\* reply was mismatched, and did not if the reply was as it should be
WriteChecked(c) ==
    \A i \in DOMAIN c.rep :
        (c.rep[i][1] = "W" /\ c.rep[i][3] > 0)
            => IF Mismatched(c.rep[i])
               THEN i = Len(c.rep) /\ c.err = "Failed to write register"
               ELSE i < Len(c.rep) \/ c.err # "Failed to write register"

\* the operation that ended last was register access op called directly
IsReg(o, op) == o.op = "direct" /\ o.l.op = op

\* C13: writereg raises 'Failed to write register' when the reply is not 9
\* bytes long or does not carry the address at index 3, and returns
\* normally for every reply that is 9 bytes long and carries the address.
C13_WriteRegChecked ==
    /\ \A i \in DOMAIN last.calls : WriteChecked(last.calls[i])
    /\ \A i \in DOMAIN cur.calls : WriteChecked(cur.calls[i])
    /\ (IsReg(last, "writereg") /\ last.calls[1].rep[1][3] > 0)
       => (last.err = OK <=> ~Mismatched(last.calls[1].rep[1]))

\* a writereg whose reply had 9 bytes and another address was refused
C13_Witness ==
    /\ IsReg(last, "writereg")
    /\ last.calls[1].rep[1][3] = 9
    /\ last.calls[1].rep[1][4] # last.l.a
    /\ last.err = "Failed to write register"
    /\ IsReg(prev, "writereg")
    /\ prev.calls[1].rep[1] = <<"W", prev.l.a, 9, prev.l.a>>
    /\ prev.err = OK

\* in call c, a register read whose reply was mismatched ended the call
\* with the read error
ReadChecked(c) ==
    \A i \in DOMAIN c.rep :
        (c.rep[i][1] = "R" /\ Mismatched(c.rep[i]))
            => i = Len(c.rep) /\ c.err = "Failed to read register"

\* C14: a register read whose reply is not 9 bytes long or does not carry
\* the address at index 3 ends with a protocol error and yields no value,
\* in a direct readreg and inside every memory access.
C14_ReadRegChecked ==
    /\ \A i \in DOMAIN last.calls : ReadChecked(last.calls[i])
    /\ \A i \in DOMAIN cur.calls : ReadChecked(cur.calls[i])
    /\ (IsReg(last, "readreg") /\ Mismatched(last.calls[1].rep[1])) => last.err # OK

\* C15: when sethaltmode has returned, the state tag is the invalidated
\* one ('XXXX'), whatever it was before, and the word access that follows
\* installs the program buffer anew.
C15_HaltInvalidates ==
    /\ (last.op = "sethaltmode" /\ last.err = OK) => last.s1.statetag = "XXXX"
    /\ (/\ prev.op = "sethaltmode" /\ prev.err = OK
        /\ (IsWrite(last) \/ IsRead(last)) /\ last.err = OK)
       => Writes(LogOf(last), {DMPROGBUF0}) = 1

\* C16: sethaltmode with a mode other than 0, 1, 2, 3, 5 raises 'Unknown
\* halt mode', has written no register and leaves haltmode as it was.
C16_UnknownMode ==
    /\ (last.op = "sethaltmode" /\ last.l.mode \notin {0, 1, 2, 3, 5})
       => /\ last.err = "Unknown halt mode"
          /\ last.calls = <<>>
          /\ last.s1 = last.s0
    /\ (cur.op = "sethaltmode" /\ stk # <<>> /\ cur.l.mode \notin {0, 1, 2, 3, 5})
       => /\ cur.calls = <<>>
          /\ isp = cur.s0

\* mode 4 was refused on a session that mode 0 had been set on
C16_Witness ==
    /\ prev.op = "sethaltmode" /\ prev.l.mode = 0 /\ prev.err = OK
    /\ last.op = "sethaltmode" /\ last.l.mode = 4
    /\ last.err = "Unknown halt mode"
    /\ last.s1.haltmode = 0
    /\ last.calls = <<>>

\* C17: a page operation on an address that is no multiple of 64, a direct
\* erasepage included, is refused with an error before any transport call.
C17_PageOpsAligned ==
    /\ (last.op \in {"erasepage", "writebinaryblob"}
        /\ (IF last.op = "erasepage" THEN last.l.base[2] ELSE last.l.addr[2]) % 64 # 0)
       => /\ last.err # OK
          /\ last.calls = <<>>
          /\ last.ev = <<>>
    /\ (cur.op = "erasepage" /\ stk # <<>> /\ cur.l.base[2] % 64 # 0)
       => cur.calls = <<>>

\* the store snippet of the program buffer for addresses of class c: the
\* flash variant ends with the store that kicks the flash controller
StoreSnippet(c) == IF c = 1 THEN W(\h9002, \hC214) ELSE W(\h0001, \h9002)

\* C18: when a word write has returned, the third program buffer word is
\* the store snippet of the class of the address written: the flash variant
\* for flash and boot addresses, the plain one otherwise.
C18_SnippetOfClass ==
    (stk = <<>> /\ IsWrite(last) /\ last.err = OK)
        => dev.pb[3] = StoreSnippet(IsFlash(last.l.a))

\* C19: every word write that returns leaves the state tag 'WRSQ' and the
\* cached address at the address written plus 4.
C19_WriteSeqAfterWrite ==
    (IsWrite(last) /\ last.err = OK)
        => /\ last.s1.statetag = "WRSQ"
           /\ last.s1.stateval = PyAdd(last.l.a, 4)

\* a write on the cache-hit path: it found the tag 'WRSQ' and the cached
\* address equal to its own, and did not reload the address register
C19_Witness ==
    /\ IsWrite(last) /\ last.err = OK
    /\ last.s0.statetag = "WRSQ"
    /\ last.s0.stateval = last.l.a
    /\ Writes(LogOf(last), {DMDATA1}) = 0
    /\ last.s1.stateval = PyAdd(last.l.a, 4)

\* the two addresses readword reads without auto-increment
NoIncrement == {FLASH_CTLR, FLASH_STATR}

\* C20: a word read at 0x40022010 or 0x4002200C runs with the read snippet
\* that does not increment the address, and leaves the cached address at
\* the address read, whatever access came before it.
C20_NoIncrementReads ==
    (stk = <<>> /\ IsRead(last) /\ last.err = OK /\ last.l.a \in NoIncrement)
        => /\ dev.pb[2] = W(\hC104, \h0001)
           /\ last.s1.stateval = last.l.a

\* C21: between connect and disconnect the hart-info register is read, and
\* with it the program buffer base registers are set up, at most once,
\* whatever word, halfword, byte and halt-mode operations are performed.
C21_SetupOnce == dev.nhart <= 1

\* ------------------------------------------------------------------------
\* EraseSpec: a caller unlocks the flash, erases pages or the chip and sets
\* halt modes on a session that was connected while the device behaved,
\* against a flash
\* controller that is ready at once, busy for 2, 99 or 100 reads of the
\* status register or for ever, that reports the protection error always or
\* only while it is busy, that is locked, deaf to the keys or open, and
\* against a debug module that stops completing abstract commands.
\* ------------------------------------------------------------------------
EraseOps == 2

EraseDevs ==
    {Nominal,
     [Nominal EXCEPT !.busy = 2, !.prot = 2],
     [Nominal EXCEPT !.busy = 2, !.prot = 1],
     [Nominal EXCEPT !.busy = 99],
     [Nominal EXCEPT !.busy = 100],
     [Nominal EXCEPT !.busy = -1, !.prot = 1],
     [Nominal EXCEPT !.prot = 1],
     [Nominal EXCEPT !.unlockable = FALSE],
     [Nominal EXCEPT !.locked = FALSE],
     [Nominal EXCEPT !.opdelay = -1]}

EraseInit ==
    /\ \E scn \in EraseDevs :
          LET start(w) == /\ isp = w.s
                          /\ dev = [w.d EXCEPT !.ctl = <<>>, !.scn = scn]
          IN  start(Connected([scn EXCEPT !.opdelay = 0, !.busy = 0]))
    /\ Idle(0, EraseOps)

EraseNext == CallUnlock \/ CallErasePage \/ CallEraseChip \/ CallHalt \/ Step

EraseSpec == EraseInit /\ [][EraseNext]_vars

\* C22: every flash operation ends, with success or with an error, as long
\* as every transfer is answered: no poll loop runs for ever against a
\* device that keeps reporting busy.
C22_FlashOpsEnd ==
    (last.op \in {"unlockflash", "erasepage", "erasechip"}) => last.err # "HANG"

\* the values the word reads of the flash status register returned during
\* operation o, in order
RECURSIVE StatrOf(_)
StatrOf(calls) ==
    IF calls = <<>> THEN <<>>
    ELSE (IF calls[1].op = "readword" /\ calls[1].a = FLASH_STATR /\ calls[1].err = OK
          THEN <<calls[1].ret>> ELSE <<>>) \o StatrOf(Tail(calls))

BusyBit(v) == And16(v[2], 1) # 0
ProtBit(v) == And16(v[2], 16) # 0

\* the first of at most 100 reads p that shows the busy bit clear (0: none)
FirstClear(p) ==
    IF \A i \in DOMAIN p : i > 100 \/ BusyBit(p[i]) THEN 0
    ELSE CHOOSE i \in DOMAIN p :
            /\ i <= 100 /\ ~BusyBit(p[i])
            /\ \A j \in 1..(i - 1) : BusyBit(p[j])

\* what the wait of an erase made of the status reads p, the erase ending
\* with err
WaitJudged(p, err) ==
    /\ Len(p) <= 100
    /\ \A i \in 1..(Len(p) - 1) : BusyBit(p[i])
    /\ err = OK <=> \E i \in DOMAIN p : i <= 100 /\ ~BusyBit(p[i]) /\ ~ProtBit(p[i])
    /\ err = "FLASH is protected" <=> (FirstClear(p) # 0 /\ ProtBit(p[FirstClear(p)]))
    /\ (Len(p) = 100 /\ \A i \in DOMAIN p : BusyBit(p[i]))
       => err = "Timout waiting for FLASH"
    /\ err = "Timout waiting for FLASH" => FirstClear(p) = 0

\* C23: waitforflash succeeds iff one of the first 100 reads of the status
\* register shows the busy bit clear and the protection bit clear in the
\* same read; it fails with the protection error iff the first read with
\* busy clear has the protection bit set; a protection bit read while busy
\* is set is no failure; after 100 busy reads the error is the timeout,
\* whatever the protection bit.  (Seen in the erases, which wait once.)
C23_WaitVerdict ==
    (last.op \in {"erasepage", "erasechip"} /\ StatrOf(last.calls) # <<>>)
        => WaitJudged(StatrOf(last.calls), last.err)

\* an erase succeeded although the protection bit was read set while busy
C23_Witness ==
    /\ last.op = "erasepage" /\ last.err = OK
    /\ Len(StatrOf(last.calls)) = 3
    /\ ProtBit(StatrOf(last.calls)[1]) /\ BusyBit(StatrOf(last.calls)[1])
    /\ ~ProtBit(StatrOf(last.calls)[3]) /\ ~BusyBit(StatrOf(last.calls)[3])

\* the values the word reads of the flash control register returned, in
\* order
RECURSIVE CtlrOf(_)
CtlrOf(calls) ==
    IF calls = <<>> THEN <<>>
    ELSE (IF calls[1].op = "readword" /\ calls[1].a = FLASH_CTLR /\ calls[1].err = OK
          THEN <<calls[1].ret>> ELSE <<>>) \o CtlrOf(Tail(calls))

\* LOCK or FLOCK is set in a value of the control register
LockBits(v) == And16(v[2], \h8080) # 0

\* the accesses of calls that write a key register
KeyCalls(calls) ==
    {i \in DOMAIN calls :
        calls[i].op = "writeword" /\ calls[i].a \in {FLASH_KEYR, FLASH_OBKEYR, FLASH_MODEKEYR}}

\* the last element of a non-empty sequence
Last(q) == q[Len(q)]

\* C24: unlockflash writes key registers only when its first read of the
\* control register shows a lock bit; when the read after the keys still
\* shows one it raises 'Failed to unlock FLASH' and flashunlocked is not
\* set; flashunlocked is set only when the latest read of the control
\* register showed both lock bits clear; once set it stays set.
C24_UnlockFlag ==
    /\ (last.op = "unlockflash" /\ KeyCalls(last.calls) # {})
       => /\ last.calls[1].op = "readword" /\ last.calls[1].a = FLASH_CTLR
          /\ LockBits(last.calls[1].ret)
          /\ \A i \in KeyCalls(last.calls) : i > 1
    /\ (last.op = "unlockflash" /\ Len(CtlrOf(last.calls)) = 2)
       => (LockBits(CtlrOf(last.calls)[2]) <=> last.err = "Failed to unlock FLASH")
    /\ last.err = "Failed to unlock FLASH"
       => /\ LockBits(Last(CtlrOf(last.calls)))
          /\ last.s1.flashunlocked = 0
    /\ (last.s0.flashunlocked = 0 /\ last.s1.flashunlocked = 1)
       => /\ CtlrOf(last.calls) # <<>>
          /\ ~LockBits(Last(CtlrOf(last.calls)))
    /\ (stk # <<>> /\ cur.s0.flashunlocked = 0 /\ isp.flashunlocked = 1)
       => /\ CtlrOf(cur.calls) # <<>>
          /\ ~LockBits(Last(CtlrOf(cur.calls)))
    /\ last.s0.flashunlocked = 1 => last.s1.flashunlocked = 1
    /\ (stk # <<>> /\ cur.s0.flashunlocked = 1) => isp.flashunlocked = 1

\* an unlock failed on a device deaf to the keys after one on the same
\* session had failed: the keys went out again, the flag is still clear
C24_Witness ==
    /\ prev.op = "unlockflash" /\ prev.err = "Failed to unlock FLASH"
    /\ last.op = "unlockflash" /\ last.err = "Failed to unlock FLASH"
    /\ Cardinality(KeyCalls(last.calls)) = 6
    /\ Len(CtlrOf(last.calls)) = 2
    /\ last.s1.flashunlocked = 0

\* an erase-request bit (PER, MER) or the start bit is set in v
EraseBits(v) == Bit(v, 17) = 1 \/ Bit(v, 2) = 1 \/ Bit(v, 6) = 1

\* access c writes the flash control register
IsCtlrWrite(c) == c.op = "writeword" /\ c.a = FLASH_CTLR

\* when access i of calls is made, the control register has been read with
\* both lock bits clear: in an earlier access of calls, or (flag) earlier
\* in the session
OpenSeen(calls, i, flag) ==
    \/ flag = 1
    \/ \E j \in 1..(i - 1) :
          /\ calls[j].op = "readword" /\ calls[j].a = FLASH_CTLR /\ calls[j].err = OK
          /\ ~LockBits(calls[j].ret)

\* no erase bit is written before the lock bits were seen clear
ErasesOpen(calls, flag) ==
    \A i \in DOMAIN calls :
        (IsCtlrWrite(calls[i]) /\ EraseBits(calls[i].v)) => OpenSeen(calls, i, flag)

\* what an access is for the flash controller
StepOf(c) ==
    IF IsCtlrWrite(c) THEN <<"ctlr", c.v>>
    ELSE IF c.op = "writeword" /\ c.a = FLASH_ADDR THEN <<"addr", c.v>>
    ELSE IF c.op = "readword" /\ c.a = FLASH_STATR THEN <<"poll">>
    ELSE IF c.op = "writeword" THEN <<"word", c.a, c.v>>
    ELSE <<"other">>

\* the accesses from the first write of the control register on
RECURSIVE FromCtlr(_)
FromCtlr(calls) ==
    IF calls = <<>> THEN <<>>
    ELSE IF IsCtlrWrite(calls[1]) THEN [i \in DOMAIN calls |-> StepOf(calls[i])]
    ELSE FromCtlr(Tail(calls))

NPolls(q) == Cardinality({i \in DOMAIN q : q[i] = <<"poll">>})

\* the steps of an erase that polls n times: request, (page address,)
\* request and start, the polls, control register cleared
EraseSteps(op, l, n) ==
    (IF op = "erasepage"
     THEN << <<"ctlr", W(2, 0)>>, <<"addr", l.base>>, <<"ctlr", W(2, 64)>> >>
     ELSE << <<"ctlr", W(0, 4)>>, <<"ctlr", W(0, 68)>> >>)
    \o [i \in 1..n |-> <<"poll">>] \o << <<"ctlr", ZERO>> >>

IsPrefix(q, full) == Len(q) <= Len(full) /\ q = SubSeq(full, 1, Len(q))

\* the erase in calls keeps the order, and clears the control register
\* only after a poll that showed the flash ready and unprotected
InOrder(op, l, calls) ==
    LET q == FromCtlr(calls)
        p == StatrOf(calls)
    IN  /\ IsPrefix(q, EraseSteps(op, l, NPolls(q)))
        /\ (q # <<>> /\ Last(q) = <<"ctlr", ZERO>>)
           => /\ p # <<>>
              /\ ~BusyBit(Last(p)) /\ ~ProtBit(Last(p))

\* C25: erasepage and erasechip write no erase-request or start bit to the
\* control register before the control register was read with both lock
\* bits clear in this session (flashunlocked is only set by such a read);
\* within an erase the request bit is written first, then request and
\* start, then the status register is polled, and only after a successful
\* poll the control register is cleared.
C25_EraseOrder ==
    /\ (last.s0.flashunlocked = 0 /\ last.s1.flashunlocked = 1)
       => \E j \in DOMAIN last.calls : OpenSeen(last.calls, j + 1, 0)
    /\ last.op \in {"erasepage", "erasechip"}
       => /\ ErasesOpen(last.calls, last.s0.flashunlocked)
          /\ InOrder(last.op, last.l, last.calls)
          /\ last.err = OK
             => FromCtlr(last.calls)
                    = EraseSteps(last.op, last.l, Len(StatrOf(last.calls)))
    /\ (stk # <<>> /\ cur.op \in {"erasepage", "erasechip"})
       => /\ ErasesOpen(cur.calls, cur.s0.flashunlocked)
          /\ InOrder(cur.op, cur.l, cur.calls)

\* a page erase that unlocked the flash itself and polled three times
C25_Witness ==
    /\ last.op = "erasepage" /\ last.err = OK
    /\ last.s0.flashunlocked = 0
    /\ Cardinality(KeyCalls(last.calls)) = 6
    /\ FromCtlr(last.calls) = EraseSteps("erasepage", last.l, 3)

\* a run of polls counts as one poll
OnePoll(q) ==
    LET mark == [i \in DOMAIN q |->
                    IF i > 1 /\ q[i] = <<"poll">> /\ q[i - 1] = <<"poll">>
                    THEN <<"more">> ELSE q[i]]
        keep(e) == e # <<"more">>
    IN  SelectSeq(mark, keep)

\* the steps that program the page at offset x of data at base: the page
\* erase, the page-program bit and the buffer reset, the sixteen words in
\* increasing order, each loaded into the buffer and waited for, the page
\* address, program and start, the wait, control register cleared
PageSteps(base, data, x) ==
    << <<"ctlr", W(2, 0)>>, <<"addr", PyAdd(base, x)>>, <<"ctlr", W(2, 64)>>,
       <<"poll">>, <<"ctlr", ZERO>>,
       <<"ctlr", W(1, 0)>>, <<"ctlr", W(9, 0)>>, <<"poll">> >>
    \o [i \in 1..48 |->
           CASE i % 3 = 1 -> <<"word", PyAdd(base, x + 4 * (i \div 3)),
                               PaddedWord(data, x + 4 * (i \div 3))>>
             [] i % 3 = 2 -> <<"ctlr", W(5, 0)>>
             [] OTHER     -> <<"poll">>]
    \o << <<"addr", PyAdd(base, x)>>, <<"ctlr", W(1, 64)>>, <<"poll">>,
          <<"ctlr", ZERO>> >>

RECURSIVE BlobSteps(_, _, _)
BlobSteps(base, data, x) ==
    IF x >= Len(data) THEN <<>>
    ELSE PageSteps(base, data, x) \o BlobSteps(base, data, x + 64)

\* a poll that another access follows had found the flash ready and
\* unprotected
PollsPassed(calls) ==
    \A i \in 1..(Len(calls) - 1) :
        (StepOf(calls[i]) = <<"poll">> /\ StepOf(calls[i + 1]) # <<"poll">>)
            => ~BusyBit(calls[i].ret) /\ ~ProtBit(calls[i].ret)

\* the address a blob operation programs at
BlobBase(o) == IF o.op = "flash_data" THEN CH_CODE_BASE ELSE o.l.addr

\* C26: writebinaryblob programs page after page; for each page: the page
\* erase, the page-program bit, the 16 words at base, base+4, ..., base+60
\* each followed by a successful busy poll, the page base to the address
\* register and program+start to the control register, a successful busy
\* poll, control register cleared.  What a blob operation did is always a
\* beginning of this list (a failure ends it: no word of a later page is
\* written), and all of it when the operation succeeded.
C26_PageProgramOrder ==
    (last.op \in {"writebinaryblob", "flash_data"} /\ last.calls # <<>>)
        => /\ IsPrefix(OnePoll(FromCtlr(last.calls)),
                       BlobSteps(BlobBase(last), last.l.data, 0))
           /\ PollsPassed(last.calls)
           /\ last.err = OK
              => OnePoll(FromCtlr(last.calls)) = BlobSteps(BlobBase(last), last.l.data, 0)

\* two pages were programmed on a device whose flash stays busy for two
\* polls after each start
C26_Witness ==
    /\ last.op = "flash_data" /\ last.err = OK
    /\ Len(last.l.data) = 100
    /\ dev.scn.busy = 2
    /\ Len(OnePoll(FromCtlr(last.calls))) = 120
    /\ OnePoll(FromCtlr(last.calls)) = BlobSteps(CH_CODE_BASE, last.l.data, 0)

\* operation o is one of the four byte and halfword accesses
IsSub(o) ==
    o.op = "direct" /\ o.l.op \in {"writebyte", "readbyte", "writehalfword", "readhalfword"}

\* C27: each of writebyte, readbyte, writehalfword, readhalfword leaves the
\* state tag 'XXXX' and the cached address -1, whatever they were before,
\* and the word access that follows installs the program buffer and sets up
\* the hart-info offsets again.
C27_SubWordInvalidates ==
    /\ (IsSub(last) /\ last.err = OK)
       => /\ last.s1.statetag = "XXXX"
          /\ last.s1.stateval = MINUS1
    /\ (IsSub(prev) /\ prev.err = OK /\ (IsWrite(last) \/ IsRead(last)) /\ last.err = OK)
       => /\ Writes(LogOf(last), {DMPROGBUF0}) = 1
          /\ Writes(LogOf(last), {DMPROGBUF1}) = 1
          /\ Writes(LogOf(last), {DMPROGBUF2}) = 1
          /\ Reads(LogOf(last), {DMHARTINFO}) = 1
          /\ LogOf(last)[1] = <<"W", DMABSTRACTAUTO, ZERO>>

\* a halfword read in the middle of a read sequence, and the word read at
\* the cached next address after it, which set everything up again
C27_Witness ==
    /\ IsSub(prev) /\ prev.l.op = "readhalfword" /\ prev.err = OK
    /\ prev.s0.statetag = "RDSQ"
    /\ prev.s1.statetag = "XXXX" /\ prev.s1.stateval = MINUS1
    /\ IsRead(last) /\ last.err = OK
    /\ last.l.a = prev.s0.stateval
    /\ Reads(LogOf(last), {DMHARTINFO}) = 1

\* C28: a word write to a flash-class address does not return before the
\* flash status register was read with the busy bit (bit 0) clear.
C28_FlashWriteWaits ==
    (stk = <<>> /\ IsWrite(last) /\ last.err = OK /\ IsFlash(last.l.a) = 1)
        => /\ last.nstatr > 0
           /\ dev.fbusy = 0

\* ------------------------------------------------------------------------
\* ReadSpec: a caller writes words to the RAM and reads blobs of 0 to
\* MaxCount bytes that start at any offset within a word, from the RAM or
\* from erased flash.
\* ------------------------------------------------------------------------
ReadOps == 2
MaxCount == 9

CallReadBlob ==
    \E a \in {PyAdd(RAM0, 4), PyAdd(RAM0, 5), PyAdd(RAM0, 6), PyAdd(RAM0, 7), PyAdd(FLS0, 2)},
       n \in 0..MaxCount :
        Start("readbinaryblob", <<a, n>>)

ReadInit == InitApi({Nominal}, 0, ReadOps)

ReadNext == CallWrite \/ CallReadBlob \/ Step

ReadSpec == ReadInit /\ [][ReadNext]_vars

\* the width in bytes of a read access
WidthOf(c) ==
    CASE c.op = "readword"     -> 4
      [] c.op = "readhalfword" -> 2
      [] OTHER                 -> 1

RECURSIVE Covered(_)
Covered(calls) == IF calls = <<>> THEN 0 ELSE WidthOf(calls[1]) + Covered(Tail(calls))

\* the widest access that address offset a (mod 4) and n bytes left allow
Widest(a, n) ==
    IF a % 4 = 0 /\ n >= 4 THEN 4
    ELSE IF a % 2 = 0 /\ n >= 2 THEN 2
    ELSE 1

\* the accesses of a readbinaryblob(addr, count) follow one another without
\* gap or overlap from addr on, each aligned to its width and the widest
\* that alignment and the bytes left allow
AccessesFit(calls, addr, count) ==
    \A i \in DOMAIN calls :
        LET off == Covered(SubSeq(calls, 1, i - 1)) IN
        /\ calls[i].op \in {"readword", "readhalfword", "readbyte"}
        /\ calls[i].a = PyAdd(addr, off)
        /\ (addr[2] + off) % WidthOf(calls[i]) = 0
        /\ off < count
        /\ WidthOf(calls[i]) = Widest(addr[2] + off, count - off)

\* C29: readbinaryblob(addr, count) ends by returning count bytes, for
\* every address and count; its accesses cover addr .. addr+count-1 in
\* order without gap or overlap, each is aligned to its width, and each is
\* the widest that the alignment and the bytes left allow.
C29_BlobReadCovers ==
    (last.op = "readbinaryblob")
        => /\ last.err = OK
           /\ Len(last.ret) = last.l.count
           /\ Covered(last.calls) = last.l.count
           /\ AccessesFit(last.calls, last.l.addr, last.l.count)

\* ------------------------------------------------------------------------
\* ConnSpec: a caller connects, with the calibrator's or with
\* tiny_arkanoid's variant of the tool, to a target whose answers to the
\* first three chip-identify probes are refusals, ids of supported chips,
\* ids of unknown chips or the id that reads as chip type 0xfff, over a
\* link on which a transfer may time out.
\* ------------------------------------------------------------------------
ConnOps == 2
ConnFaults == 1

\* a refusal, a CH32V003J4M6, a CH32V203C8U6, an unknown chip, id 0, and an
\* id that reads as chip type 0xfff
Answers == {W(0, 0), W(1, 51), W(1, 8240), W(1, \h1234), W(1, 0), W(1, \hFFF0)}

ProbeSeqs ==
    {<<>>} \cup {<<a>> : a \in Answers} \cup {<<a, b>> : a, b \in Answers}
    \cup {<<a, b, c>> : a, b, c \in Answers}

CallCalConnect == cfg.variant = "calibrator" /\ Start("cal_connect", <<>>)

CallArkConnect == cfg.variant = "arkanoid" /\ Start("ark_connect", <<>>)

ConnInit ==
    /\ \E p \in ProbeSeqs : dev = PowerOn([Nominal EXCEPT !.probe = p])
    /\ isp = NoSession
    /\ stk = <<>>
    /\ ret = ZERO
    /\ cur = [op |-> "none", l |-> [none |-> 0], calls |-> <<>>, s0 |-> NoSession]
    /\ last = NoOp
    /\ prev = NoOp
    /\ nops = 0
    /\ out = [status |-> "api", sent |-> <<>>, errs |-> <<>>, linked |-> FALSE]
    /\ \E v \in {"calibrator", "arkanoid"} :
          cfg = [faults |-> ConnFaults, maxops |-> ConnOps, variant |-> v]

ConnNext == CallCalConnect \/ CallArkConnect \/ Step

ConnSpec == ConnInit /\ [][ConnNext]_vars

\* the accesses of calls that send command op
Sends(calls, op) == {i \in DOMAIN calls : calls[i].op = op}

\* probe c was answered, and with a chip that connect op accepts
ProbeGood(op, c) ==
    /\ c.err = OK
    /\ c.ret[1] = 1
    /\ IF op = "cal_connect" THEN \E d \in CalDevices : d.id = c.ret[2]
       ELSE c.ret[2] \div 16 # \hFFF

\* what connect made of its probes
ProbesJudged(o) ==
    LET pr == Sends(o.calls, "probe") IN
    /\ Cardinality(pr) <= 3
    /\ \A i \in pr : ProbeGood(o.op, o.calls[i]) => \A j \in pr : j <= i
    /\ o.err = OK => \E i \in pr : ProbeGood(o.op, o.calls[i])
    /\ o.err = "Failed to connect to target MCU"
       => /\ Cardinality(pr) = 3
          /\ \A i \in pr : ~ProbeGood(o.op, o.calls[i])

\* C30: connect sends the chip-identify probe at most 3 times, succeeds on
\* the first probe whose reply is valid and names a supported chip, raises
\* 'Failed to connect to target MCU' only after three probes have failed,
\* and sends no other command a second time.
C30_ProbeRetries ==
    (last.op \in {"cal_connect", "ark_connect"})
        => /\ ProbesJudged(last)
           /\ \A i, j \in DOMAIN last.calls :
                 (last.calls[i].op # "probe" /\ last.calls[i].op = last.calls[j].op)
                     => i = j

\* ------------------------------------------------------------------------
\* AbortSpec: the accesses and halt-mode changes of Spec on a connected
\* session, over a link on which one transfer may time out or bring a
\* malformed reply, so that an access may end part-way with an exception.
\* ------------------------------------------------------------------------
AbortOps == 2
AbortFaults == 1

AbortInit == InitApi({Nominal}, AbortFaults, AbortOps)

AbortNext == CallWrite \/ CallRead \/ CallSub \/ CallHalt \/ Step

AbortSpec == AbortInit /\ [][AbortNext]_vars

\* the write snippet / the read snippet is in the program buffer of the
\* debug module and an access of DMDATA0 executes it
WriteSnippetLive(d) ==
    /\ d.pb[1] = W(\hC080, \h4184)
    /\ d.pb[2] = W(\hC184, \h0491)
    /\ d.pb[3] \in {W(\h9002, \hC214), W(\h0001, \h9002)}
    /\ d.auto = W(0, 1)

ReadSnippetLive(d) ==
    /\ d.pb[1] = W(\h4004, \h4180)
    /\ d.pb[2] \in {W(\hC104, \h0411), W(\hC104, \h0001)}
    /\ d.pb[3] = W(\h9002, \hC180)
    /\ d.auto = W(0, 1)

\* C35: in every reachable state between two accesses, also after an access
\* that a transport or protocol error ended part-way, the state tag agrees
\* with the debug module: 'WRSQ' implies that the write snippet is in the
\* program buffer with auto-execution on, 'RDSQ' the same for the read
\* snippet.
C35_TagAgrees ==
    /\ isp.statetag = "WRSQ" => WriteSnippetLive(dev)
    /\ isp.statetag = "RDSQ" => ReadSnippetLive(dev)

\* the read snippet's second word: c.addi x8, 4 (incrementing) or c.nop
IncrementingWord == W(\hC104, \h0411)
PlainWord == W(\hC104, \h0001)

\* the session's flag names the variant of the read snippet that is installed
FlagIsVariant(s, d) ==
    \/ s.autoincrement = 1 /\ d.pb[2] = IncrementingWord
    \/ s.autoincrement = 0 /\ d.pb[2] = PlainWord

\* the state right after a readword of address last.l.a, returned or raised
AfterRead == stk = <<>> /\ last.op = "direct" /\ last.l.op = "readword"

\* C36: whenever the state tag is 'RDSQ', the autoincrement flag equals the
\* variant of the read snippet in the program buffer, and the cached
\* address is the last read address plus 4 when the flag is set and that
\* address itself when it is clear.
C36_ReadCacheAgrees ==
    isp.statetag = "RDSQ" =>
        /\ FlagIsVariant(isp, dev)
        /\ AfterRead => isp.stateval = PyAdd(last.l.a, 4 * isp.autoincrement)

\* the register writes of an access, in the order they were sent
RegWrites(c) == SelectSeq(c.log, LAMBDA e : e[1] = "W")

\* C37: each byte and halfword access writes 0 to DMABSTRACTAUTO as its
\* first register write, before it loads the program buffer and the data
\* registers.
C37_AutoOffFirst ==
    (/\ last.op = "direct"
     /\ last.l.op \in {"writebyte", "readbyte", "writehalfword", "readhalfword"}
     /\ last.calls # <<>>)
        => /\ RegWrites(last.calls[1]) # <<>>
           /\ Head(RegWrites(last.calls[1])) = <<"W", DMABSTRACTAUTO, ZERO>>

\* C39: sethaltmode records the new mode in the session only after every
\* register write of the mode's sequence has succeeded: while the sequence
\* runs and when a write of it fails, haltmode keeps the value it had, and
\* after a call that returns haltmode is the requested mode.
C39_HaltModeLast ==
    /\ (stk # <<>> /\ cur.op = "sethaltmode") => isp.haltmode = cur.s0.haltmode
    /\ (stk = <<>> /\ last.op = "sethaltmode") =>
          /\ isp.haltmode = last.s1.haltmode
          /\ last.err # OK => last.s1.haltmode = last.s0.haltmode
          /\ last.err = OK => last.s1.haltmode = last.l.mode

\* a change of mode failed at a register write after earlier writes of its
\* sequence had gone through, on a session that was in another mode
C39_Witness ==
    /\ stk = <<>>
    /\ last.op = "sethaltmode"
    /\ last.err \in {"USBError", "Failed to write register"}
    /\ last.calls # <<>>
    /\ Len(last.calls[Len(last.calls)].log) > 1
    /\ last.s0.haltmode \in {0, 1, 2, 3, 5}
    /\ last.s0.haltmode # last.l.mode
    /\ isp.haltmode = last.s0.haltmode

\* C34: every entry of DEVICES has a block size of 64 or 256 bytes, so
\* every block size that reaches the alignment check of writebinaryblob and
\* the page splitter is one of these two values.
C34_BlockSizes ==
    /\ last.op = "cal_writebinaryblob" => last.l.blocksize \in {64, 256}
    /\ \A i \in DOMAIN last.calls :
          last.calls[i].op = "cal_blob" => last.calls[i].v.blocksize \in {64, 256}

\* ------------------------------------------------------------------------
\* UploadSpec: a caller programs a blob with the calibrator's variant of the
\* tool on a target that is or is not read-protected, over a link on which
\* one transfer may fail and whose loader ends the upload with one of
\* several status replies.
\* ------------------------------------------------------------------------
UploadOps == 1
UploadFaults == 1

\* the status 41 01 01 04, the same bytes in other orders and numbers, other
\* status bytes, a short and an empty reply
RawReplies ==
    {<<65, 1, 1, 4>>, <<65, 1, 4>>, <<4, 1, 1, 65>>, <<65, 1, 1, 4, 4>>,
     <<65, 1, 1, 2>>, <<65, 1, 1>>, <<65, 1, 1, 4, 0>>, <<>>}

UploadInit ==
    /\ \E d \in CalDevices, rp \in BOOLEAN, reply \in RawReplies :
          /\ isp = CalSession(d, 16)
          /\ dev = PowerOn([Nominal EXCEPT !.rdprot = rp, !.rawreply = reply])
    /\ stk = <<>>
    /\ ret = ZERO
    /\ cur = [op |-> "none", l |-> [none |-> 0], calls |-> <<>>, s0 |-> NoSession]
    /\ last = NoOp
    /\ prev = NoOp
    /\ nops = 0
    /\ out = [status |-> "api", sent |-> <<>>, errs |-> <<>>, linked |-> FALSE]
    /\ cfg = [faults |-> UploadFaults, maxops |-> UploadOps, variant |-> "calibrator"]

UploadNext == CalBlob \/ CalFlash \/ Step

UploadSpec == UploadInit /\ [][UploadNext]_vars

\* the raw-upload path of the last operation read the status reply
StatusRead(o) ==
    /\ o.op \in {"cal_writebinaryblob", "cal_flash_data"}
    /\ \E i \in DOMAIN o.calls :
          /\ o.calls[i].op = "cal_blob"
          /\ \E k \in DOMAIN o.calls[i].log : o.calls[i].log[k][1] = "Y"
    /\ o.err # "USBError"

\* C38: the raw-upload path reports success only when the status reply on
\* the raw endpoint is exactly the bytes 41 01 01 04; every other reply
\* (other length, order or multiplicity of bytes) raises 'Failed
\* writing/verifying data blob'.
C38_ExactStatus ==
    (stk = <<>> /\ StatusRead(last) /\ cfg.faults = UploadFaults) =>
        /\ last.err = OK => dev.scn.rawreply = <<65, 1, 1, 4>>
        /\ dev.scn.rawreply # <<65, 1, 1, 4>>
              => last.err = "Failed writing/verifying data blob"

\* what a transfer of the upload is: the protection query, the option bytes
\* command that unlocks, the header, a marker, a write on the raw endpoint
\* or the read of the status on it
KindOf(e) ==
    CASE e[1] = "X" -> "raw"
      [] e[1] = "Y" -> "status"
      [] e[1] = "C" /\ e[2] = "81060101" -> "query"
      [] e[1] = "C" /\ e[2] = "810108"   -> "header"
      [] e[1] = "C" /\ e[2] = "81020105" -> "loader-begin"
      [] e[1] = "C" /\ e[2] = "81020107" -> "loader-end"
      [] e[1] = "C" /\ e[2] = "81020104" -> "payload-begin"
      [] OTHER -> "unlock"

KindsOf(log) == [k \in DOMAIN log |-> KindOf(log[k])]

\* the number of pages of size bytes that n bytes take
PagesFor(n, size) == (n + size - 1) \div size

Times(n, x) == [k \in 1..n |-> x]

\* the transfers of an upload of l.data with l.bootloader, in the order
\* claimed
UploadOrder(l, protected) ==
    << "query" >> \o (IF protected THEN << "unlock" >> ELSE << >>)
    \o << "header", "loader-begin" >>
    \o Times(PagesFor(l.bootloader.len, 128), "raw")
    \o << "loader-end", "payload-begin" >>
    \o Times(PagesFor(Len(l.data), l.blocksize), "raw")
    \o << "status" >>

\* the upload calls of an operation
Uploads(o) == SelectSeq(o.calls, LAMBDA c : c.op = "cal_blob")

\* the raw writes k of log, with their position among the raw writes
RawAt(log, j) == SelectSeq(log, LAMBDA e : e[1] = "X")[j][2]

UploadInOrder(c, protected) ==
    LET want == UploadOrder(c.v, protected)
        got  == KindsOf(c.log)
        nl   == PagesFor(c.v.bootloader.len, 128)
        np   == PagesFor(Len(c.v.data), c.v.blocksize)
    IN  /\ And16(c.a[2], c.v.blocksize - 1) = 0
        /\ IsPrefix(got, want)
        /\ c.err \in {OK, "Failed writing/verifying data blob"} =>
              /\ got = want
              /\ \A j \in 1..nl : RawAt(c.log, j).loader = c.v.bootloader.name
              /\ \A j \in 1..nl : RawAt(c.log, j).from = (j - 1) * 128
              /\ \A j \in 1..np :
                    RawAt(c.log, nl + j)
                        = SubSeq(c.v.data \o FFs(np * c.v.blocksize - Len(c.v.data)),
                                 (j - 1) * c.v.blocksize + 1, j * c.v.blocksize)
              /\ c.log[IF protected THEN 3 ELSE 2][4] = c.a
              /\ c.log[IF protected THEN 3 ELSE 2][5] = np * c.v.blocksize

\* C32: in the raw-upload path the steps occur in this order: alignment
\* check, protection query and unlock, header with address and length,
\* loader-begin marker, all bootloader chunks, loader-end marker,
\* payload-begin marker, all payload pages in ascending order, then exactly
\* one status read on the raw endpoint; nothing is read from the raw
\* endpoint between the chunks, and no payload page goes out before the
\* last bootloader chunk.
C32_UploadOrder ==
    (stk = <<>> /\ last.op \in {"cal_writebinaryblob", "cal_flash_data"}) =>
        /\ Len(Uploads(last)) <= 1
        /\ \A i \in DOMAIN Uploads(last) :
              UploadInOrder(Uploads(last)[i], dev.scn.rdprot)
        /\ last.err \in {OK, "Failed writing/verifying data blob"} => Len(Uploads(last)) = 1
        /\ (last.op = "cal_writebinaryblob"
            /\ And16(last.l.addr[2], last.l.blocksize - 1) # 0) => last.calls = <<>>

\* an upload to a read-protected target went through with several loader
\* chunks and several payload pages, the last of them padded
C32_Witness ==
    /\ stk = <<>>
    /\ last.op = "cal_writebinaryblob"
    /\ last.err = OK
    /\ dev.scn.rdprot
    /\ Len(last.l.data) % last.l.blocksize # 0
    /\ Len(Uploads(last)) = 1
    /\ Len(SelectSeq(last.calls[1].log, LAMBDA e : e[1] = "X")) >= 6
    /\ KindOf(last.calls[1].log[Len(last.calls[1].log)]) = "status"

\* ------------------------------------------------------------------------
\* PadSpec: flash_data of the calibrator's variant with images of every
\* length up to MaxLen, for a device of each block size of DEVICES.
\* ------------------------------------------------------------------------
MaxLen == 520
PadOps == 1

CallPad ==
    /\ cfg.variant = "calibrator"
    /\ \E n \in 0..MaxLen, tail \in {1, 255} : Start("cal_flash_data", <<Image(n, tail)>>)

PadInit ==
    /\ \E d \in CalDevices : isp = CalSession(d, 16)
    /\ dev = PowerOn(Nominal)
    /\ stk = <<>>
    /\ ret = ZERO
    /\ cur = [op |-> "none", l |-> [none |-> 0], calls |-> <<>>, s0 |-> NoSession]
    /\ last = NoOp
    /\ prev = NoOp
    /\ nops = 0
    /\ out = [status |-> "api", sent |-> <<>>, errs |-> <<>>, linked |-> FALSE]
    /\ cfg = [faults |-> 0, maxops |-> PadOps, variant |-> "calibrator"]

PadNext == CallPad \/ Step

PadSpec == PadInit /\ [][PadNext]_vars

\* the payload pages of an upload: the raw writes after the payload-begin
\* marker
PayloadPages(log) ==
    LET m == CHOOSE k \in DOMAIN log : KindOf(log[k]) = "payload-begin"
        after == SubSeq(log, m + 1, Len(log))
        raws == SelectSeq(after, LAMBDA e : e[1] = "X")
    IN  [j \in DOMAIN raws |-> raws[j][2]]

\* the length the header announces
Announced(log) ==
    LET h == CHOOSE k \in DOMAIN log : KindOf(log[k]) = "header" IN log[h][5]

RECURSIVE Concat(_)
Concat(pages) == IF pages = <<>> THEN <<>> ELSE Head(pages) \o Concat(Tail(pages))

\* the pages are data followed by bytes 0xFF only, in pages of size bytes
\* each, no page more than data needs, and their total is what was announced
PagesCarry(pages, data, size, announced) ==
    LET all == Concat(pages) IN
    /\ Len(pages) * size >= Len(data)
    /\ (Len(pages) - 1) * size < Len(data) \/ (Len(pages) = 0 /\ data = <<>>)
    /\ \A j \in DOMAIN pages : Len(pages[j]) = size
    /\ SubSeq(all, 1, Len(data)) = data
    /\ \A i \in (Len(data) + 1)..Len(all) : all[i] = 255
    /\ announced = size * Len(pages)
    /\ announced = Len(all)

\* C33: in the raw-upload path the payload length announced in the header
\* equals the number of payload bytes streamed: page_data yields
\* ceil(len(data)/blocksize) pages of exactly blocksize bytes whose
\* concatenation is data followed only by bytes 0xFF, and padlen is
\* blocksize times that number of pages.
C33_PaddedLength ==
    (stk = <<>> /\ last.op = "cal_flash_data" /\ last.err = OK) =>
        /\ Len(Uploads(last)) = 1
        /\ PagesCarry(PayloadPages(Uploads(last)[1].log), last.l.data,
                      last.s0.device.blocksize, Announced(Uploads(last)[1].log))

\* an image of more than two pages of 256 bytes was uploaded, its last page
\* padded
C33_Witness ==
    /\ stk = <<>>
    /\ last.op = "cal_flash_data"
    /\ last.err = OK
    /\ last.s0.device.blocksize = 256
    /\ Len(last.l.data) = 513
    /\ Announced(Uploads(last)[1].log) = 768
    /\ Len(PayloadPages(Uploads(last)[1].log)) = 3

\* ------------------------------------------------------------------------
\* StartSpec: a session starts, with the calibrator's or with
\* tiny_arkanoid's variant of the tool: the constructor runs on a link of
\* one kind or another, or with no link, whose reply endpoints hold a reply
\* of an earlier session or are empty, and connect follows.
\* ------------------------------------------------------------------------
StartOps == 2
StartFaults == 1
MaxStale == 1

LinkKinds == {"linkE", "ch549", "other", "none"}

CallCalInit ==
    /\ cfg.variant = "calibrator"
    /\ nops = 0
    /\ Start("direct", <<"cal_init", ZERO, ZERO>>)

CallArkInit ==
    /\ cfg.variant = "arkanoid"
    /\ nops = 0
    /\ Start("direct", <<"ark_init", ZERO, ZERO>>)

\* connect on the session the constructor has made
CallConnect ==
    /\ nops = 1
    /\ last.err = OK
    /\ \/ CallCalConnect
       \/ CallArkConnect

StartInit ==
    /\ \E lk \in LinkKinds, a \in 0..MaxStale, b \in 0..MaxStale, p \in Answers :
          dev = PowerOn([Nominal EXCEPT !.link = lk, !.stale = <<a, b>>, !.probe = <<p>>])
    /\ isp = NoSession
    /\ stk = <<>>
    /\ ret = ZERO
    /\ cur = [op |-> "none", l |-> [none |-> 0], calls |-> <<>>, s0 |-> NoSession]
    /\ last = NoOp
    /\ prev = NoOp
    /\ nops = 0
    /\ out = [status |-> "api", sent |-> <<>>, errs |-> <<>>, linked |-> FALSE]
    /\ \E v \in {"calibrator", "arkanoid"} :
          cfg = [faults |-> StartFaults, maxops |-> StartOps, variant |-> v]

StartNext == CallCalInit \/ CallArkInit \/ CallConnect \/ Step

StartSpec == StartInit /\ [][StartNext]_vars

\* the constructor of the last operation has sent its first command
FirstCommandSent(o) ==
    /\ o.op = "direct"
    /\ o.l.op \in {"cal_init", "ark_init"}
    /\ o.calls # <<>>
    /\ \E k \in DOMAIN o.calls[1].log : o.calls[1].log[k][1] = "C"

\* the short reads of the endpoints that came before the first command
DrainsBefore(log) ==
    LET c == CHOOSE k \in DOMAIN log : log[k][1] = "C" /\ \A j \in 1..(k - 1) : log[j][1] # "C"
    IN  {log[j][2] : j \in {i \in 1..(c - 1) : log[i][1] = "D"}}

\* C31: at session start each reply endpoint that holds a stale reply is
\* drained before the first command is sent, and an empty endpoint is not an
\* error: whether or not the command endpoint held stale data, the raw
\* endpoint is still read and the constructor goes on to its first command.
C31_StaleDrained ==
    /\ (stk = <<>> /\ FirstCommandSent(last)) =>
          /\ DrainsBefore(last.calls[1].log) = {"in", "raw"}
          /\ dev.epin = 0
          /\ dev.epraw = 0
    /\ (stk = <<>> /\ last.op = "direct" /\ last.l.op \in {"cal_init", "ark_init"}
        /\ dev.scn.link # "none") => FirstCommandSent(last)
====
